---- MODULE Spec2Model ----
(***************************************************************************)
(* A model of harrybrwn/config: the reflection-driven copy/merge engine    *)
(* (reflect_util.go), the default materializer and the path resolver, the   *)
(* binding of flags, the reading of config files, and Watch and ReloadOn    *)
(* (watch.go) with the goroutines they start.                               *)
(*                                                                         *)
(* Go memory is a heap of cells.  A pointer, a slice and a map hold the    *)
(* address of the cell they refer to, so that two values which share a     *)
(* cell are aliases of each other.  A reflect.Value is either addressable  *)
(* (it names a location: a cell and a path of field indices into it) or    *)
(* not (it carries a copy of the value).                                   *)
(***************************************************************************)
EXTENDS Integers, Sequences, FiniteSets, TLC

VARIABLES
    heap,    \* the memory: a sequence of cells, the address is the index
    heap0,   \* the memory before the first call (config: before the last call)
    heap1,   \* the memory after the first call (config: before the last assignment or reload)
    pc,      \* where the caller is: "init", then what it has done last
    err,     \* outcome of the first call (config: of the last call)
    err2,    \* outcome of the second call
    mdst,    \* merge: the reflect.Value passed as dst
    msrc,    \* merge: the reflect.Value passed as src
    cv,      \* copyVal: the reflect.Value passed
    ccp,     \* copyVal: the reflect.Value returned
    elem,    \* Config.elem: the reflect.Value of the config struct
    env,     \* the process environment: the text of each variable that is set
    ret,     \* what the last accessor returned
    lastKey, \* the key the last accessor was called with
    schema,  \* the type of the config struct the program declares
    config,  \* Config.config: the value SetConfig was called with
    flagset,   \* the flag.FlagSet: the flag registered under each name
    pflagset,  \* the pflag.FlagSet: the flag registered under each name
    delim,     \* nestedFlagDelim
    overrides, \* the names the program passes to DisableFlag when it binds
    files,     \* the candidate config files that exist, in the order of the search
    watch      \* Config.mu, the watcher and its goroutine, the goroutine of ReloadOn

mergeVars == <<mdst, msrc>>
copyVars == <<cv, ccp>>
confVars == <<elem, env, ret, lastKey, schema, config>>
flagVars == <<flagset, pflagset, delim, overrides>>
vars == <<heap, heap0, heap1, pc, err, err2, mergeVars, copyVars, confVars, flagVars, files, watch>>

(***************************************************************************)
(* Bounds of the model.                                                    *)
(***************************************************************************)
MaxInt == 1      \* integer fields range over 0..MaxInt
MaxLen == 1      \* slices hold up to MaxLen elements

(***************************************************************************)
(* Types.  A type is named by its Go spelling; TypeTab gives its kind, its *)
(* element type (pointer, slice, array, map) and its fields (struct).      *)
(***************************************************************************)
\* A struct tag, as reflect.StructTag.Get reads it: "" for a key that is absent.
Tag(cfg, yaml, def, ev) ==
    ("config" :> cfg) @@ ("yaml" :> yaml) @@ ("json" :> <<>>) @@
    ("default" :> def) @@ ("env" :> ev)

NoTag == Tag(<<>>, <<>>, <<>>, <<>>)

Fld(name, t) == [name |-> name, t |-> t, tag |-> NoTag]
FldT(name, t, tag) == [name |-> name, t |-> t, tag |-> tag]

Ty(k, el, fields) == [k |-> k, elem |-> el, fields |-> fields]

TypeTab ==
    ("int"               :> Ty("int", "", <<>>)) @@
    ("int8"              :> Ty("int8", "", <<>>)) @@
    ("bool"              :> Ty("bool", "", <<>>)) @@
    ("string"            :> Ty("string", "", <<>>)) @@
    ("Inner"             :> Ty("struct", "", <<Fld(<<"V", "a", "l">>, "string")>>)) @@
    ("T"                 :> Ty("struct", "",
                               <<Fld(<<"B">>, "int"), Fld(<<"I">>, "Inner"),
                                 Fld(<<"N", "e", "s", "t">>, "*T"),
                                 Fld(<<"M">>, "map[string]*T"),
                                 Fld(<<"A", "r", "r">>, "[]int")>>)) @@
    ("U"                 :> Ty("struct", "", <<Fld(<<"X">>, "int")>>)) @@
    ("*T"                :> Ty("ptr", "T", <<>>)) @@
    ("*U"                :> Ty("ptr", "U", <<>>)) @@
    ("*int"              :> Ty("ptr", "int", <<>>)) @@
    ("[]int"             :> Ty("slice", "int", <<>>)) @@
    ("[]*U"              :> Ty("slice", "*U", <<>>)) @@
    ("[1]*U"             :> Ty("array", "*U", <<>>)) @@
    ("map[string]int"    :> Ty("map", "int", <<>>)) @@
    ("map[string]string" :> Ty("map", "string", <<>>)) @@
    ("map[string]*T"     :> Ty("map", "*T", <<>>)) @@
    ("map[string]Inner"  :> Ty("map", "Inner", <<>>)) @@
    ("*map[string]int"   :> Ty("ptr", "map[string]int", <<>>)) @@
    ("*map[string]string" :> Ty("ptr", "map[string]string", <<>>)) @@
    \* the configuration schema of the config specification:
    \*   type C struct {
    \*       A     string `config:"a" env:"TEST_A"`
    \*       B     int    `config:"b" default:"89"`
    \*       E     int8   `env:"E" default:"12"`
    \*       TF    bool   `yaml:"tf" default:"true"`
    \*       N     int
    \*       Inner struct {
    \*           Val   string `default:"w"`
    \*           Other int    `default:"69"`
    \*       } `config:"inner"`
    \*   }
    ("CInner"            :> Ty("struct", "",
                               <<FldT(<<"V", "a", "l">>, "string", Tag(<<>>, <<>>, <<"w">>, <<>>)),
                                 FldT(<<"O", "t", "h", "e", "r">>, "int",
                                      Tag(<<>>, <<>>, <<"6", "9">>, <<>>))>>)) @@
    ("C"                 :> Ty("struct", "",
                               <<FldT(<<"A">>, "string",
                                      Tag(<<"a">>, <<>>, <<>>, <<"T", "E", "S", "T", "_", "A">>)),
                                 FldT(<<"B">>, "int", Tag(<<"b">>, <<>>, <<"8", "9">>, <<>>)),
                                 FldT(<<"E">>, "int8", Tag(<<>>, <<>>, <<"1", "2">>, <<"E">>)),
                                 FldT(<<"T", "F">>, "bool",
                                      Tag(<<>>, <<"t", "f">>, <<"t", "r", "u", "e">>, <<>>)),
                                 Fld(<<"N">>, "int"),
                                 FldT(<<"I", "n", "n", "e", "r">>, "CInner",
                                      Tag(<<"i", "n", "n", "e", "r">>, <<>>, <<>>, <<>>))>>)) @@
    ("*C"                :> Ty("ptr", "C", <<>>)) @@
    \* the schema of the getters specification:
    \*   type G struct {
    \*       Port int    `config:"port"`
    \*       Name string `yaml:"name"`
    \*       On   bool   `json:"on"`
    \*       L    []int
    \*       M    map[string]string
    \*       P    *int
    \*       Sub  struct{ X int } `config:"sub"`
    \*   }
    ("GSub"              :> Ty("struct", "", <<Fld(<<"X">>, "int")>>)) @@
    ("G"                 :> Ty("struct", "",
                               <<FldT(<<"P", "o", "r", "t">>, "int",
                                      Tag(<<"p", "o", "r", "t">>, <<>>, <<>>, <<>>)),
                                 FldT(<<"N", "a", "m", "e">>, "string",
                                      Tag(<<>>, <<"n", "a", "m", "e">>, <<>>, <<>>)),
                                 FldT(<<"O", "n">>, "bool",
                                      [NoTag EXCEPT !["json"] = <<"o", "n">>]),
                                 Fld(<<"L">>, "[]int"),
                                 Fld(<<"M">>, "map[string]string"),
                                 Fld(<<"P">>, "*int"),
                                 FldT(<<"S", "u", "b">>, "GSub",
                                      Tag(<<"s", "u", "b">>, <<>>, <<>>, <<>>))>>)) @@
    ("*G"                :> Ty("ptr", "G", <<>>)) @@
    \* the schema of the defaults walk specification:
    \*   type D struct {
    \*       P  int  `default:"1"`
    \*       W  int8 `env:"W"`
    \*       In struct {
    \*           X int8 `env:"E"`
    \*           Y int  `default:"2"`
    \*       }
    \*       Q  int  `default:"3"`
    \*   }
    ("DIn"               :> Ty("struct", "",
                               <<FldT(<<"X">>, "int8", Tag(<<>>, <<>>, <<>>, <<"E">>)),
                                 FldT(<<"Y">>, "int", Tag(<<>>, <<>>, <<"2">>, <<>>))>>)) @@
    ("D"                 :> Ty("struct", "",
                               <<FldT(<<"P">>, "int", Tag(<<>>, <<>>, <<"1">>, <<>>)),
                                 FldT(<<"W">>, "int8", Tag(<<>>, <<>>, <<>>, <<"W">>)),
                                 Fld(<<"I", "n">>, "DIn"),
                                 FldT(<<"Q">>, "int", Tag(<<>>, <<>>, <<"3">>, <<>>))>>)) @@
    ("*D"                :> Ty("ptr", "D", <<>>)) @@
    \* the schema of the flags specification:
    \*   type F struct {
    \*       A    int8
    \*       Only int  `config:"t, notflag"`
    \*       On   bool `config:"on" default:"true"`
    \*       Name struct{ Val int } `config:"inner"`
    \*       Off  struct{ Z int }   `config:"off,notflag"`
    \*   }
    ("FName"             :> Ty("struct", "", <<Fld(<<"V", "a", "l">>, "int")>>)) @@
    ("FOff"              :> Ty("struct", "", <<Fld(<<"Z">>, "int")>>)) @@
    ("F"                 :> Ty("struct", "",
                               <<Fld(<<"A">>, "int8"),
                                 FldT(<<"O", "n", "l", "y">>, "int",
                                      Tag(<<"t", ",", " ", "n", "o", "t", "f", "l", "a", "g">>,
                                          <<>>, <<>>, <<>>)),
                                 FldT(<<"O", "n">>, "bool",
                                      Tag(<<"o", "n">>, <<>>, <<"t", "r", "u", "e">>, <<>>)),
                                 FldT(<<"N", "a", "m", "e">>, "FName",
                                      Tag(<<"i", "n", "n", "e", "r">>, <<>>, <<>>, <<>>)),
                                 FldT(<<"O", "f", "f">>, "FOff",
                                      Tag(<<"o", "f", "f", ",", "n", "o", "t", "f", "l", "a", "g">>,
                                          <<>>, <<>>, <<>>))>>)) @@
    ("*F"                :> Ty("ptr", "F", <<>>)) @@
    \* the schema of the config files specification:
    \*   type R struct {
    \*       A  int
    \*       S  string
    \*       In struct{ V int }
    \*       M  map[string]int
    \*   }
    ("RIn"               :> Ty("struct", "", <<Fld(<<"V">>, "int")>>)) @@
    ("R"                 :> Ty("struct", "",
                               <<Fld(<<"A">>, "int"), Fld(<<"S">>, "string"),
                                 Fld(<<"I", "n">>, "RIn"), Fld(<<"M">>, "map[string]int")>>)) @@
    ("*R"                :> Ty("ptr", "R", <<>>)) @@
    \* the schema of the complex numbers specification:
    \*   type K struct {
    \*       I int        `config:"i"`
    \*       C complex128 `config:"c" default:"1"`
    \*       Z complex64  `env:"W"`
    \*       U complex128
    \*   }
    ("complex64"         :> Ty("complex64", "", <<>>)) @@
    ("complex128"        :> Ty("complex128", "", <<>>)) @@
    ("K"                 :> Ty("struct", "",
                               <<FldT(<<"I">>, "int", Tag(<<"i">>, <<>>, <<>>, <<>>)),
                                 FldT(<<"C">>, "complex128", Tag(<<"c">>, <<>>, <<"1">>, <<>>)),
                                 FldT(<<"Z">>, "complex64", Tag(<<>>, <<>>, <<>>, <<"W">>)),
                                 Fld(<<"U">>, "complex128")>>)) @@
    ("*K"                :> Ty("ptr", "K", <<>>))

KindOf(t) == TypeTab[t].k
ElemOf(t) == TypeTab[t].elem
FieldsOf(t) == TypeTab[t].fields

\* reflect.PtrTo / the type of reflect.New(t)
PtrTo(t) == CHOOSE p \in DOMAIN TypeTab : TypeTab[p].k = "ptr" /\ TypeTab[p].elem = t

(***************************************************************************)
(* Values.  Strings are sequences of characters.                           *)
(***************************************************************************)
Invalid == [k |-> "invalid"]
IntV(n) == [k |-> "int", t |-> "int", v |-> n]
Int8V(n) == [k |-> "int8", t |-> "int8", v |-> n]
BoolV(b) == [k |-> "bool", t |-> "bool", v |-> b]
StrV(s) == [k |-> "string", t |-> "string", v |-> s]
PtrV(t, a) == [k |-> "ptr", t |-> t, a |-> a]
\* a complex number of type t: n stands for the number, 0 for zero
ComplexV(t, n) == [k |-> t, t |-> t, v |-> n]
MapV(t, a) == [k |-> "map", t |-> t, a |-> a]
SliceV(t, a) == [k |-> "slice", t |-> t, a |-> a]
ArrayV(t, e) == [k |-> "array", t |-> t, f |-> e]
StructV(t, f) == [k |-> "struct", t |-> t, f |-> f]

\* the cells that are not values: a slice's backing array, a map's table
ArrCell(e) == [k |-> "backing", e |-> e]
MapCell(m) == [k |-> "table", m |-> m]

RECURSIVE Zero(_)
\* reflect.Zero(t)
Zero(t) ==
    LET d == TypeTab[t] IN
    CASE d.k = "int" -> IntV(0)
      [] d.k = "int8" -> Int8V(0)
      [] d.k \in {"complex64", "complex128"} -> ComplexV(t, 0)
      [] d.k = "bool" -> BoolV(FALSE)
      [] d.k = "string" -> StrV(<<>>)
      [] d.k = "ptr" -> PtrV(t, 0)
      [] d.k = "map" -> MapV(t, 0)
      [] d.k = "slice" -> SliceV(t, 0)
      [] d.k = "array" -> ArrayV(t, <<Zero(d.elem)>>)
      [] d.k = "struct" -> StructV(t, [i \in 1..Len(d.fields) |-> Zero(d.fields[i].t)])

RECURSIVE IsZero(_)
\* reflect.Value.IsZero, for a valid value
IsZero(v) ==
    CASE v.k \in {"int", "int8", "complex64", "complex128"} -> v.v = 0
      [] v.k = "bool" -> ~v.v
      [] v.k = "string" -> v.v = <<>>
      [] v.k \in {"ptr", "map", "slice"} -> v.a = 0
      [] v.k \in {"array", "struct"} -> \A i \in 1..Len(v.f) : IsZero(v.f[i])

\* isZero: reflect.DeepEqual with the zero value of the type
isZero(v) == v = Zero(v.t)

(***************************************************************************)
(* reflect.Value: can = addressable; loc = the location; val = the copy.   *)
(***************************************************************************)
NoLoc == [a |-> 0, p |-> <<>>]
RV(val) == [can |-> FALSE, loc |-> NoLoc, val |-> val]
LV(a, p) == [can |-> TRUE, loc |-> [a |-> a, p |-> p], val |-> Invalid]

RECURSIVE GetPath(_, _)
GetPath(v, p) == IF p = <<>> THEN v ELSE GetPath(v.f[Head(p)], Tail(p))

RECURSIVE SetPath(_, _, _)
SetPath(old, p, v) ==
    IF p = <<>> THEN v
    ELSE [old EXCEPT !.f = [@ EXCEPT ![Head(p)] = SetPath(@, Tail(p), v)]]

\* the value a reflect.Value holds now
ValOf(h, rv) == IF rv.can THEN GetPath(h[rv.loc.a], rv.loc.p) ELSE rv.val

\* memory after storing v at the location of an addressable reflect.Value
Store(h, rv, v) == [h EXCEPT ![rv.loc.a] = SetPath(@, rv.loc.p, v)]

\* reflect.Value.Elem of a pointer: the zero Value for nil
Elem(h, rv) ==
    LET v == ValOf(h, rv) IN IF v.a = 0 THEN RV(Invalid) ELSE LV(v.a, <<>>)

\* reflect.Value.Field(i), i from 1
Field(h, rv, i) ==
    IF rv.can THEN LV(rv.loc.a, Append(rv.loc.p, i)) ELSE RV(rv.val.f[i])

NumField(v) == Len(v.f)

\* reflect.Value.MapIndex: the zero Value when the key is absent
MapIndex(h, m, key) ==
    IF m.a # 0 /\ key \in DOMAIN h[m.a].m THEN RV(h[m.a].m[key]) ELSE RV(Invalid)

\* the keys of a map in the iteration order ord (Go leaves the order open)
MapKeys(h, m, ord) ==
    IF m.a = 0 THEN <<>> ELSE SelectSeq(ord, LAMBDA key : key \in DOMAIN h[m.a].m)

\* the table of h[a] with key set to v
SetKey(h, a, key, v) ==
    [h EXCEPT ![a] = MapCell([x \in DOMAIN @.m \cup {key} |-> IF x = key THEN v ELSE @.m[x]])]

\* the variables of the parts a specification does not use
MergeIdle == mdst = RV(Invalid) /\ msrc = RV(Invalid)
CopyIdle == cv = RV(Invalid) /\ ccp = RV(Invalid)
ConfIdle ==
    elem = RV(Invalid) /\ env = <<>> /\ ret = Invalid /\ lastKey = <<>> /\ schema = ""
    /\ config = Invalid

FlagIdle == flagset = <<>> /\ pflagset = <<>> /\ delim = "-" /\ overrides = {}
FilesIdle == files = <<>>

\* before Watch and ReloadOn: no goroutine runs, the mutexes are free (mu is
\* Config.mu, other the mutex of another Config), the channels of the watcher
\* are open
WatchOff ==
    [pc |-> "off", mu |-> "", other |-> "", events |-> "open", errors |-> "open",
     added |-> {}, event |-> <<>>, tmp |-> RV(Invalid), res |-> "none", n |-> 0, errs |-> 0,
     rpc |-> "off", opc |-> "off"]
WatchIdle == watch = WatchOff

\* F applied to the value of x, which is computed once
Bind(x, F(_)) == CHOOSE y \in {F(r) : r \in {x}} : TRUE

Ok(h) == [h |-> h, e |-> "nil"]
Panic(h) == [h |-> h, e |-> "panic"]
Mismatch(h) == [h |-> h, e |-> "mismatch"]

(***************************************************************************)
(* copyVal (reflect_util.go).  The result is the memory after the call,    *)
(* the reflect.Value returned and "nil" or "panic".                        *)
(***************************************************************************)
Copied(h, rv) == [h |-> h, rv |-> rv, e |-> "nil"]
CopyPanic(h) == [h |-> h, rv |-> RV(Invalid), e |-> "panic"]

RECURSIVE copyVal(_, _, _)
RECURSIVE copyFields(_, _, _, _, _)
RECURSIVE copyKeys(_, _, _, _, _)

\* field i of the struct case when it holds the non-nil pointer fv: r is the
\* result of copyVal(vf.Elem()) and et the type pointed to
copyPtrField(v, cpa, i, ord, ft, et, r) ==
    IF r.e # "nil" THEN r
    ELSE
        Bind(ValOf(r.h, r.rv), LAMBDA fieldcopy :
        Bind(PtrV(PtrTo(et), Len(r.h) + 1), LAMBDA cf :
            \* cf.Elem().Set(fieldcopy); cp.Field(i).Set(cf)
            IF fieldcopy.t # et \/ cf.t # ft THEN CopyPanic(r.h)
            ELSE Bind(Store(Append(r.h, fieldcopy), LV(cpa, <<i>>), cf), LAMBDA h2 :
                    copyFields(h2, v, cpa, i + 1, ord))))

\* field i of the struct case when it is no pointer: r is the result of copyVal(vf)
copyPlainField(v, cpa, i, ord, ft, r) ==
    IF r.e # "nil" THEN r
    ELSE
        Bind(ValOf(r.h, r.rv), LAMBDA c :
            \* cp.Field(i).Set(copyVal(vf))
            IF c.t # ft THEN CopyPanic(r.h)
            ELSE Bind(Store(r.h, LV(cpa, <<i>>), c), LAMBDA h2 :
                    copyFields(h2, v, cpa, i + 1, ord)))

\* the struct case: cp is the cell at cpa, the fields from i on are still to copy
copyFields(h, v, cpa, i, ord) ==
    Bind(ValOf(h, v), LAMBDA x :
        IF i > NumField(x) THEN Copied(h, LV(cpa, <<>>))
        ELSE
            Bind(Field(h, v, i), LAMBDA vf :
            Bind(ValOf(h, vf), LAMBDA fv :
                IF fv.k = "ptr" THEN
                    IF fv.a = 0 THEN copyFields(h, v, cpa, i + 1, ord)
                    ELSE Bind(copyVal(h, Elem(h, vf), ord), LAMBDA r :
                            copyPtrField(v, cpa, i, ord, FieldsOf(x.t)[i].t, h[fv.a].t, r))
                ELSE Bind(copyVal(h, vf, ord), LAMBDA r :
                        copyPlainField(v, cpa, i, ord, FieldsOf(x.t)[i].t, r)))))

\* the map case: cp is the table at cpa, keys are still to copy
copyKeys(h, x, cpa, keys, ord) ==
    IF keys = <<>> THEN Copied(h, RV(MapV(x.t, cpa)))
    ELSE
        Bind(copyVal(h, MapIndex(h, x, Head(keys)), ord), LAMBDA r :
            IF r.e # "nil" THEN r
            ELSE
                Bind(ValOf(r.h, r.rv), LAMBDA c :
                    \* cp.SetMapIndex(key, ...): the value must be assignable to the
                    \* element type
                    IF c.t # ElemOf(x.t) THEN CopyPanic(r.h)
                    ELSE Bind(SetKey(r.h, cpa, Head(keys), c), LAMBDA h2 :
                            copyKeys(h2, x, cpa, Tail(keys), ord))))

copyVal(h, v0, ord) ==
    Bind(IF ValOf(h, v0).k = "ptr" THEN Elem(h, v0) ELSE v0, LAMBDA v :
    Bind(ValOf(h, v), LAMBDA x :
    Bind(Len(h) + 1, LAMBDA na :
        CASE x.k = "array" -> Copied(Append(h, x), LV(na, <<>>))
          [] x.k = "slice" ->
                Copied(Append(h, ArrCell(IF x.a = 0 THEN <<>> ELSE h[x.a].e)),
                       RV(SliceV(x.t, na)))
          [] x.k = "struct" -> copyFields(Append(h, Zero(x.t)), v, na, 1, ord)
          [] x.k = "map" -> copyKeys(Append(h, MapCell(<<>>)), x, na, MapKeys(h, x, ord), ord)
          [] x.k = "invalid" -> CopyPanic(h)
          [] OTHER -> Copied(Append(h, x), LV(na, <<>>)))))

(***************************************************************************)
(* merge (reflect_util.go).  The result is the memory after the call and   *)
(* "nil", "mismatch" (errMismatchedTypes) or "panic".                      *)
(***************************************************************************)
RECURSIVE merge(_, _, _, _)
RECURSIVE mergeFields(_, _, _, _, _)
RECURSIVE mergeKeys(_, _, _, _, _)

\* dst.SetMapIndex(key, val) and the rest of the loop over the keys
mergeSetKey(h, dst, src, keys, ord, val) ==
    Bind(ValOf(h, dst), LAMBDA d :
        IF val.t # ElemOf(d.t) THEN Panic(h)
        ELSE Bind(SetKey(h, d.a, Head(keys), val), LAMBDA h2 :
                mergeKeys(h2, dst, src, Tail(keys), ord)))

\* a key dst does not hold: r is the result of copyVal(srcval)
mergeNewKey(dst, src, keys, ord, srcval, r) ==
    IF r.e # "nil" THEN Panic(r.h)
    ELSE IF srcval.val.k = "ptr" THEN
        \* dstval.Addr()
        IF ~r.rv.can THEN Panic(r.h)
        ELSE mergeSetKey(r.h, dst, src, keys, ord,
                         PtrV(PtrTo(ValOf(r.h, r.rv).t), r.rv.loc.a))
    ELSE mergeSetKey(r.h, dst, src, keys, ord, ValOf(r.h, r.rv))

\* a key dst holds: r is the result of merge(dstval, srcval)
mergeOldKey(dst, src, keys, ord, dstval, r) ==
    IF r.e # "nil" THEN r
    ELSE mergeSetKey(r.h, dst, src, keys, ord, ValOf(r.h, dstval))

\* the map case: the loop over src.MapKeys()
mergeKeys(h, dst, src, keys, ord) ==
    IF keys = <<>> THEN Ok(h)
    ELSE
        Bind(MapIndex(h, ValOf(h, dst), Head(keys)), LAMBDA dstval :
        Bind(MapIndex(h, ValOf(h, src), Head(keys)), LAMBDA srcval :
            IF dstval.val.k = "invalid"
            THEN Bind(copyVal(h, srcval, ord), LAMBDA r :
                    mergeNewKey(dst, src, keys, ord, srcval, r))
            ELSE Bind(merge(h, dstval, srcval, ord), LAMBDA r :
                    mergeOldKey(dst, src, keys, ord, dstval, r))))

\* a field after merge(df1, sf) gave r: dst.Field(i).Set(df)
mergeField(df, df1, ft, r) ==
    IF r.e # "nil" THEN r
    ELSE
        Bind(ValOf(r.h, df1), LAMBDA nv :
            IF ~df.can \/ nv.t # ft THEN Panic(r.h)
            ELSE Ok(Store(r.h, df, nv)))

\* the field of src is a pointer and the field of dst is nil: df = reflect.New(...)
mergeFreshField(h, ord, sf, df, ft) ==
    Bind(ValOf(h, Elem(h, sf)).t, LAMBDA et :
    Bind(RV(PtrV(PtrTo(et), Len(h) + 1)), LAMBDA df1 :
    Bind(merge(Append(h, Zero(et)), df1, sf, ord), LAMBDA r :
        mergeField(df, df1, ft, r))))

\* the struct case: one turn of the loop, for field i; d is the value of dst
mergeFieldAt(h, dst, src, i, ord, d) ==
    LET sf == Field(h, src, i)
        df == Field(h, dst, i)
        sv == ValOf(h, sf)
        dv == ValOf(h, df)
    IN  IF IsZero(sv) THEN Ok(h)
        ELSE IF sv.k = "ptr" /\ dv.k \notin {"ptr", "map", "slice"} THEN Panic(h)
        ELSE IF sv.k = "ptr" /\ dv.a = 0
        THEN mergeFreshField(h, ord, sf, df, FieldsOf(d.t)[i].t)
        ELSE Bind(merge(h, df, sf, ord), LAMBDA r :
                mergeField(df, df, FieldsOf(d.t)[i].t, r))

\* the struct case: the loop over the fields, from field i on
mergeFields(h, dst, src, i, ord) ==
    IF i > NumField(ValOf(h, src)) THEN Ok(h)
    ELSE IF i > NumField(ValOf(h, dst)) THEN Panic(h)
    ELSE Bind(mergeFieldAt(h, dst, src, i, ord, ValOf(h, dst)), LAMBDA r :
            IF r.e # "nil" THEN r ELSE mergeFields(r.h, dst, src, i + 1, ord))

\* mutant of mergeDefault: the source is stored whether or not dst is zero
mergeDefaultOverwrites(h, dst, src) ==
    IF ~dst.can \/ ValOf(h, src).t # ValOf(h, dst).t THEN Panic(h)
    ELSE Ok(Store(h, dst, ValOf(h, src)))

\* the default case of the switch: a destination that is set wins
mergeDefault(h, dst, src) ==
    IF IsZero(ValOf(h, dst)) THEN
        IF ~dst.can \/ ValOf(h, src).t # ValOf(h, dst).t THEN Panic(h)
        ELSE Ok(Store(h, dst, ValOf(h, src)))
    ELSE Ok(h)

\* the switch of merge on the kind of dst, after the pointers are unwrapped
mergeKind(h, dst, src, ord, d, s) ==
    CASE d.k = "struct" -> mergeFields(h, dst, src, 1, ord)
      [] d.k = "map" ->
            IF d.a = 0 THEN
                \* dst.Set(reflect.MakeMap(src.Type()))
                IF ~dst.can \/ s.t # d.t THEN Panic(h)
                ELSE Bind(Store(Append(h, MapCell(<<>>)), dst, MapV(s.t, Len(h) + 1)),
                          LAMBDA h2 : mergeKeys(h2, dst, src, MapKeys(h, s, ord), ord))
            ELSE mergeKeys(h, dst, src, MapKeys(h, s, ord), ord)
      [] d.k = "invalid" -> Panic(h)
      [] OTHER -> mergeDefault(h, dst, src)

merge(h, dst0, src0, ord) ==
    LET src == IF ValOf(h, src0).k = "ptr" THEN Elem(h, src0) ELSE src0
        dst == IF ValOf(h, dst0).k = "ptr" THEN Elem(h, dst0) ELSE dst0
        s == ValOf(h, src)
        d == ValOf(h, dst)
    IN  IF d.k # s.k THEN Mismatch(h) ELSE mergeKind(h, dst, src, ord, d, s)

(***************************************************************************)
(* What a caller can observe of a value: the tree reached through its      *)
(* pointers, slices and maps, without the addresses.                       *)
(***************************************************************************)
RECURSIVE View(_, _)
View(h, v) ==
    CASE v.k = "ptr" ->
            [k |-> "ptr", to |-> IF v.a = 0 THEN <<>> ELSE <<View(h, h[v.a])>>]
      [] v.k = "slice" ->
            [k |-> "slice", nil |-> v.a = 0,
             e |-> IF v.a = 0 THEN <<>>
                   ELSE [i \in 1..Len(h[v.a].e) |-> View(h, h[v.a].e[i])]]
      [] v.k = "map" ->
            [k |-> "map", nil |-> v.a = 0,
             m |-> IF v.a = 0 THEN <<>>
                   ELSE [key \in DOMAIN h[v.a].m |-> View(h, h[v.a].m[key])]]
      [] v.k \in {"struct", "array"} ->
            [k |-> v.k, t |-> v.t, f |-> [i \in 1..Len(v.f) |-> View(h, v.f[i])]]
      [] OTHER -> v

RECURSIVE Reach(_, _)
\* the addresses of the cells reachable from a value
Reach(h, v) ==
    CASE v.k = "ptr" -> IF v.a = 0 THEN {} ELSE {v.a} \cup Reach(h, h[v.a])
      [] v.k = "slice" ->
            IF v.a = 0 THEN {}
            ELSE {v.a} \cup UNION {Reach(h, h[v.a].e[i]) : i \in 1..Len(h[v.a].e)}
      [] v.k = "map" ->
            IF v.a = 0 THEN {}
            ELSE {v.a} \cup UNION {Reach(h, h[v.a].m[key]) : key \in DOMAIN h[v.a].m}
      [] v.k \in {"struct", "array"} -> UNION {Reach(h, v.f[i]) : i \in 1..Len(v.f)}
      [] OTHER -> {}

\* a value no initial field holds
Fresh == IntV(MaxInt + 2)

\* what an assignment by the caller can make of one cell: x.B = 9, s[0] = 9,
\* m["one"] = 9, delete(m, "one")
Mutations(cell) ==
    CASE cell.k = "struct" ->
            {[cell EXCEPT !.f = [@ EXCEPT ![i] = Fresh]] :
                i \in {j \in 1..Len(cell.f) : cell.f[j].k = "int"}}
      [] cell.k = "backing" ->
            {[cell EXCEPT !.e = [@ EXCEPT ![i] = Fresh]] :
                i \in {j \in 1..Len(cell.e) : cell.e[j].k = "int"}}
      [] cell.k = "table" ->
            {MapCell([x \in DOMAIN cell.m \ {key} |-> cell.m[x]]) : key \in DOMAIN cell.m}
            \cup {MapCell([x \in DOMAIN cell.m |-> IF x = key THEN Fresh ELSE cell.m[x]]) :
                    key \in {y \in DOMAIN cell.m : cell.m[y].k = "int"}}
      [] OTHER -> {}

(***************************************************************************)
(* The merge specification: dst and src are drawn from bounded sets, merge *)
(* is called once or twice, and the caller may then write through src.     *)
(***************************************************************************)
Keys == {"one", "two"}
KeyOrders == {<<"one", "two">>, <<"two", "one">>}

DstInts == 0..MaxInt
SrcInts == {0, MaxInt + 1}
DstStrs == {<<>>, <<"a">>}
SrcStrs == {<<>>, <<"b">>}

Opt(o, b) == [o |-> o, b |-> b]
DstNests == {Opt("nil", 0), Opt("leaf", 0), Opt("leaf", MaxInt)}
SrcNests == {Opt("nil", 0), Opt("leaf", 0), Opt("leaf", MaxInt + 1)}
DstMaps == {Opt("nil", 0), Opt("nilptr", 0), Opt("leaf", 0), Opt("leaf", MaxInt)}
SrcMaps == {Opt("nil", 0), Opt("empty", 0), Opt("nilptr", 0), Opt("leaf", MaxInt + 1)}

TVal(b, iv, nest, m, arr) ==
    StructV("T", <<IntV(b), StructV("Inner", <<StrV(iv)>>), PtrV("*T", nest),
                   MapV("map[string]*T", m), SliceV("[]int", arr)>>)

Leaf(b) == TVal(b, <<>>, 0, 0, 0)

\* a cell nothing refers to
Unused == IntV(0)

\* the five cells of one T: the struct, *Nest, the table of M, *M["one"], the array of Arr
SideCells(o, b, iv, nest, m, arr, ev) ==
    << TVal(b, iv, IF nest.o = "nil" THEN 0 ELSE o + 2,
                   IF m.o = "nil" THEN 0 ELSE o + 3,
                   IF arr = 0 THEN 0 ELSE o + 5),
       IF nest.o = "nil" THEN Unused ELSE Leaf(nest.b),
       MapCell(CASE m.o = "nilptr" -> ("one" :> PtrV("*T", 0))
                 [] m.o = "leaf" -> ("one" :> PtrV("*T", o + 4))
                 [] OTHER -> <<>>),
       IF m.o = "leaf" THEN Leaf(m.b) ELSE Unused,
       ArrCell([i \in 1..arr |-> IntV(ev)]) >>

\* the cells of one map[string]int variable: the variable, and its table two cells on
MapSideCells(o, t, tab) ==
    << MapV(t, IF tab.nil THEN 0 ELSE o + 3), Unused, MapCell(tab.m), Unused, Unused >>

Tables(vals) ==
    {[nil |-> TRUE, m |-> <<>>]} \cup
    {[nil |-> FALSE, m |-> f] : f \in UNION {[ks -> vals] : ks \in SUBSET Keys}}

\* two *T
InitStructs ==
    \E b \in DstInts, iv \in DstStrs, nest \in DstNests, m \in DstMaps, arr \in 0..1,
       sb \in SrcInts, snest \in SrcNests, sm \in SrcMaps, sarr \in 0..MaxLen :
        /\ heap = SideCells(0, b, iv, nest, m, arr, MaxInt)
                  \o SideCells(5, sb, IF sb = 0 THEN <<>> ELSE <<"b">>, snest, sm, sarr,
                               MaxInt + 1)
        /\ mdst = RV(PtrV("*T", 1))
        /\ msrc = RV(PtrV("*T", 6))

\* two *map[string]int
InitMaps ==
    \E d \in Tables({IntV(i) : i \in DstInts}), s \in Tables({IntV(i) : i \in SrcInts}) :
        /\ heap = MapSideCells(0, "map[string]int", d) \o MapSideCells(5, "map[string]int", s)
        /\ mdst = RV(PtrV("*map[string]int", 1))
        /\ msrc = RV(PtrV("*map[string]int", 6))

\* dst and src of different types
InitMismatched ==
    \E b \in DstInts, sb \in SrcInts,
       d \in Tables({IntV(i) : i \in DstInts}), s \in Tables({StrV(x) : x \in SrcStrs}) :
        \/ /\ heap = SideCells(0, b, <<>>, Opt("nil", 0), Opt("nil", 0), 0, 0)
                     \o MapSideCells(5, "map[string]string", s)
           /\ mdst = RV(PtrV("*T", 1))
           /\ msrc = RV(heap[6])
        \/ /\ heap = SideCells(0, b, <<>>, Opt("nil", 0), Opt("nil", 0), 0, 0)
                     \o << StructV("U", <<IntV(sb)>>), Unused, Unused, Unused, Unused >>
           /\ mdst = RV(PtrV("*T", 1))
           /\ msrc = RV(PtrV("*U", 6))
        \/ /\ heap = << StructV("U", <<IntV(b)>>), Unused, Unused, Unused, Unused >>
                     \o SideCells(5, sb, <<>>, Opt("nil", 0), Opt("nil", 0), 0, 0)
           /\ mdst = RV(PtrV("*U", 1))
           /\ msrc = RV(PtrV("*T", 6))
        \/ /\ heap = MapSideCells(0, "map[string]int", d) \o MapSideCells(5, "map[string]string", s)
           /\ mdst = RV(PtrV("*map[string]int", 1))
           /\ msrc = RV(PtrV("*map[string]string", 6))
        \/ /\ heap = SideCells(0, b, <<>>, Opt("nil", 0), Opt("nil", 0), 0, 0)
                     \o SideCells(5, sb, <<>>, Opt("nil", 0), Opt("nil", 0), 0, 0)
           /\ mdst = LV(1, <<1>>)
           /\ msrc = RV(StrV(<<"b">>))

InitMerge ==
    /\ InitStructs \/ InitMaps \/ InitMismatched
    /\ pc = "init"
    /\ err = "none"
    /\ err2 = "none"
    /\ heap0 = heap
    /\ heap1 = heap
    /\ CopyIdle
    /\ ConfIdle
    /\ FlagIdle
    /\ FilesIdle
    /\ WatchIdle

\* merge(dst, src)
Merge ==
    /\ pc = "init"
    /\ \E ord \in KeyOrders :
        LET r == merge(heap, mdst, msrc, ord) IN
        /\ heap' = r.h
        /\ heap1' = r.h
        /\ err' = r.e
    /\ pc' = "merged"
    /\ UNCHANGED <<err2, heap0, mergeVars, copyVars, confVars, flagVars, files, watch>>

\* merge(dst, src) a second time
MergeAgain ==
    /\ pc = "merged"
    /\ \E ord \in KeyOrders :
        LET r == merge(heap, mdst, msrc, ord) IN
        /\ heap' = r.h
        /\ err2' = r.e
    /\ pc' = "merged2"
    /\ UNCHANGED <<err, heap0, heap1, mergeVars, copyVars, confVars, flagVars, files, watch>>

\* after the merge the caller writes to something reachable from src
MutateSrc ==
    /\ pc = "merged"
    /\ \E a \in Reach(heap, ValOf(heap, msrc)) : \E c \in Mutations(heap[a]) :
        heap' = [heap EXCEPT ![a] = c]
    /\ pc' = "mutated"
    /\ UNCHANGED <<err, err2, heap0, heap1, mergeVars, copyVars, confVars, flagVars, files, watch>>

NextMerge == Merge \/ MergeAgain \/ MutateSrc

SpecMerge == InitMerge /\ [][NextMerge]_vars

(***************************************************************************)
(* Claims about merge.                                                     *)
(***************************************************************************)
\* the type of a reflect.Value after unwrapping one pointer level
TypeUnder(h, rv) ==
    LET v == ValOf(h, rv) IN
    IF v.k = "ptr" THEN (IF v.a = 0 THEN "invalid" ELSE h[v.a].t) ELSE v.t

DstView(h) == View(h, ValOf(h, mdst))
SrcView(h) == View(h, ValOf(h, msrc))

StructPair == TypeUnder(heap0, mdst) = "T" /\ TypeUnder(heap0, msrc) = "T"
MapPair ==
    TypeUnder(heap0, mdst) = "map[string]int" /\ TypeUnder(heap0, msrc) = "map[string]int"

RECURSIVE Preserved(_, _)
\* every non-composite field that is non-zero in the view old has its value in new
Preserved(old, new) ==
    CASE old.k \in {"int", "int8", "bool", "string"} -> IsZero(old) \/ new = old
      [] old.k = "struct" ->
            new.k = "struct" /\ \A i \in 1..Len(old.f) : Preserved(old.f[i], new.f[i])
      [] old.k = "ptr" ->
            old.to = <<>> \/ (new.to # <<>> /\ Preserved(old.to[1], new.to[1]))
      [] old.k = "map" ->
            \A key \in DOMAIN old.m : key \in DOMAIN new.m /\ Preserved(old.m[key], new.m[key])
      [] OTHER -> TRUE

\* C1: destination wins.  After merge(dst, src) on two values of the same struct
\* type, every string or number field of dst, at any nesting depth, that was
\* non-zero before the merge holds the value it held before.
DestinationWins ==
    (pc \in {"merged", "merged2"} /\ StructPair) => Preserved(DstView(heap0), DstView(heap))

\* C1 witness: a merge returned nil where dst and src both set B, Nest.B and I.Val,
\* to different values.
DestinationWinsWitness ==
    /\ pc = "merged" /\ err = "nil" /\ StructPair
    /\ LET d == DstView(heap0)
           s == SrcView(heap0)
       IN /\ d.to[1].f[1].v # 0 /\ s.to[1].f[1].v # 0 /\ d.to[1].f[1] # s.to[1].f[1]
          /\ d.to[1].f[2].f[1].v # <<>> /\ s.to[1].f[2].f[1].v # <<>>
          /\ d.to[1].f[3].to # <<>> /\ s.to[1].f[3].to # <<>>
          /\ d.to[1].f[3].to[1].f[1].v # 0 /\ s.to[1].f[3].to[1].f[1].v # 0

\* C2: merge is idempotent.  A second merge(dst, src) returns what the first
\* returned and leaves dst as the first left it.
MergeIdempotent ==
    pc = "merged2" => (err2 = err /\ DstView(heap) = DstView(heap1))

\* C3: merge never aliases.  A write through src after the merge does not
\* change dst.
MergeNeverAliases ==
    pc = "mutated" => DstView(heap) = DstView(heap1)

\* C4: map merge is a destination-wins union.  After merge on two maps of the
\* same type, dst holds the keys of both; a key of src alone holds src's value,
\* a key of both holds dst's old value when that is non-zero and src's otherwise.
MapMergeIsUnion ==
    (pc = "merged" /\ MapPair) =>
        LET d0 == DstView(heap0).to[1].m
            s0 == SrcView(heap0).to[1].m
            d1 == DstView(heap).to[1].m
        IN /\ err = "nil"
           /\ DOMAIN d1 = DOMAIN d0 \cup DOMAIN s0
           /\ \A key \in DOMAIN d1 :
                d1[key] = IF key \notin DOMAIN d0 THEN s0[key]
                          ELSE IF key \notin DOMAIN s0 \/ ~IsZero(d0[key]) THEN d0[key]
                          ELSE s0[key]

UCell(x) == StructV("U", <<IntV(x)>>)

\* *T, as SideCells lays it out
InitCopyStruct ==
    \E b \in DstInts, iv \in DstStrs, nest \in DstNests, m \in DstMaps, arr \in 0..MaxLen :
        /\ heap = SideCells(0, b, iv, nest, m, arr, MaxInt)
        /\ cv = RV(PtrV("*T", 1))

\* map[string]Inner, map[string]*T, []*U, [1]*U, []int and *int
InitCopyOther ==
    \/ \E tab \in Tables({StructV("Inner", <<StrV(x)>>) : x \in DstStrs}) :
        /\ heap = <<MapCell(tab.m)>>
        /\ cv = RV(MapV("map[string]Inner", IF tab.nil THEN 0 ELSE 1))
    \/ \E ks \in SUBSET Keys, b \in DstInts :
        /\ heap = <<MapCell([key \in ks |-> PtrV("*T", 2)]), Leaf(b)>>
        /\ cv = RV(MapV("map[string]*T", 1))
    \/ \E n \in 0..MaxLen, x \in DstInts :
        /\ heap = <<ArrCell([i \in 1..n |-> PtrV("*U", 2)]), UCell(x)>>
        /\ cv = RV(SliceV("[]*U", 1))
    \/ \E x \in DstInts :
        /\ heap = <<ArrayV("[1]*U", <<PtrV("*U", 2)>>), UCell(x)>>
        /\ cv = LV(1, <<>>)
    \/ \E n \in 0..MaxLen, x \in DstInts :
        /\ heap = <<ArrCell([i \in 1..n |-> IntV(x)])>>
        /\ cv = RV(SliceV("[]int", 1))
    \/ \E x \in DstInts :
        /\ heap = <<IntV(x)>>
        /\ cv = RV(PtrV("*int", 1))

InitCopy ==
    /\ InitCopyStruct \/ InitCopyOther
    /\ pc = "init"
    /\ err = "none"
    /\ err2 = "none"
    /\ heap0 = heap
    /\ heap1 = heap
    /\ ccp = RV(Invalid)
    /\ MergeIdle
    /\ ConfIdle
    /\ FlagIdle
    /\ FilesIdle
    /\ WatchIdle

\* cp := copyVal(v)
Copy ==
    /\ pc = "init"
    /\ \E ord \in KeyOrders :
        LET r == copyVal(heap, cv, ord) IN
        /\ heap' = r.h
        /\ heap1' = r.h
        /\ ccp' = r.rv
        /\ err' = r.e
    /\ pc' = "copied"
    /\ UNCHANGED <<heap0, err2, cv, mergeVars, confVars, flagVars, files, watch>>

\* after the copy the caller writes to something reachable from the original
MutateOriginal ==
    /\ pc = "copied"
    /\ \E a \in Reach(heap, ValOf(heap, cv)) \cup (IF cv.can THEN {cv.loc.a} ELSE {}) :
        \E c \in Mutations(heap[a]) : heap' = [heap EXCEPT ![a] = c]
    /\ pc' = "written"
    /\ UNCHANGED <<heap0, heap1, err, err2, mergeVars, copyVars, confVars, flagVars, files, watch>>

NextCopy == Copy \/ MutateOriginal

SpecCopy == InitCopy /\ [][NextCopy]_vars

(***************************************************************************)
(* Claims about copyVal.                                                   *)
(***************************************************************************)
RECURSIVE Loose(_)
\* a view without the difference between a nil and an empty slice or map
Loose(w) ==
    CASE w.k = "ptr" -> [k |-> "ptr", to |-> [i \in 1..Len(w.to) |-> Loose(w.to[i])]]
      [] w.k = "slice" -> [k |-> "slice", e |-> [i \in 1..Len(w.e) |-> Loose(w.e[i])]]
      [] w.k = "map" -> [k |-> "map", m |-> [key \in DOMAIN w.m |-> Loose(w.m[key])]]
      [] w.k \in {"struct", "array"} ->
            [k |-> w.k, t |-> w.t, f |-> [i \in 1..Len(w.f) |-> Loose(w.f[i])]]
      [] OTHER -> w

\* the view of v after unwrapping a top-level pointer
Unwrapped(w) == IF w.k = "ptr" /\ w.to # <<>> THEN w.to[1] ELSE w

\* C6: copy(v) completes without fault and yields a value deeply equal to v
\* (after unwrapping a top-level pointer), also for a map whose values are pointers.
CopyIsDeepEqual ==
    pc = "copied" =>
        /\ err = "nil"
        /\ Loose(View(heap, ValOf(heap, ccp))) = Loose(Unwrapped(View(heap0, ValOf(heap0, cv))))

\* C7: copy(v) shares no mutable state with v.  A write through v after the
\* copy does not change the copy.
CopyNeverAliases ==
    (pc = "written" /\ err = "nil") =>
        View(heap, ValOf(heap, ccp)) = View(heap1, ValOf(heap1, ccp))

(***************************************************************************)
(* Text.  strings.Split, strconv.ParseInt, ParseUint and ParseBool on      *)
(* sequences of characters.                                                *)
(***************************************************************************)
Digit ==
    ("0" :> 0) @@ ("1" :> 1) @@ ("2" :> 2) @@ ("3" :> 3) @@ ("4" :> 4) @@
    ("5" :> 5) @@ ("6" :> 6) @@ ("7" :> 7) @@ ("8" :> 8) @@ ("9" :> 9)

\* the first index of character c in s, 0 when there is none
IndexOf(s, c) ==
    IF \E i \in 1..Len(s) : s[i] = c
    THEN CHOOSE i \in 1..Len(s) : s[i] = c /\ \A j \in 1..(i - 1) : s[j] # c
    ELSE 0

RECURSIVE Split(_, _)
\* strings.Split(s, sep) for a separator of one character
Split(s, sep) ==
    LET i == IndexOf(s, sep) IN
    IF i = 0 THEN <<s>>
    ELSE <<SubSeq(s, 1, i - 1)>> \o Split(SubSeq(s, i + 1, Len(s)), sep)

RECURSIVE Decimal(_, _)
\* the number the digits of s denote, after the digits that gave acc
Decimal(s, acc) == IF s = <<>> THEN acc ELSE Decimal(Tail(s), 10 * acc + Digit[Head(s)])

Parsed(n) == [ok |-> TRUE, n |-> n]
NotParsed == [ok |-> FALSE, n |-> 0]

\* the widths the texts of the model can overflow: a text of the model has at
\* most three digits
Narrow(bits) == bits < 16

\* strconv.ParseUint(s, 10, bits)
ParseUint(s, bits) ==
    IF s = <<>> \/ \E i \in 1..Len(s) : s[i] \notin DOMAIN Digit THEN NotParsed
    ELSE LET n == Decimal(s, 0) IN
         IF Narrow(bits) /\ n >= 2 ^ bits THEN NotParsed ELSE Parsed(n)

\* strconv.ParseInt(s, 10, bits)
ParseInt(s, bits) ==
    IF s = <<>> THEN NotParsed
    ELSE
        LET neg == Head(s) = "-"
            body == IF Head(s) \in {"+", "-"} THEN Tail(s) ELSE s
            un == ParseUint(body, 64)
            cutoff == 2 ^ (bits - 1)
        IN
        IF ~un.ok THEN NotParsed
        ELSE IF Narrow(bits) /\ ~neg /\ un.n >= cutoff THEN NotParsed
        ELSE IF Narrow(bits) /\ neg /\ un.n > cutoff THEN NotParsed
        ELSE Parsed(IF neg THEN 0 - un.n ELSE un.n)

TrueTexts ==
    {<<"1">>, <<"t">>, <<"T">>, <<"T", "R", "U", "E">>, <<"t", "r", "u", "e">>,
     <<"T", "r", "u", "e">>}
FalseTexts ==
    {<<"0">>, <<"f">>, <<"F">>, <<"F", "A", "L", "S", "E">>, <<"f", "a", "l", "s", "e">>,
     <<"F", "a", "l", "s", "e">>}

\* strconv.ParseBool(s)
ParseBool(s) ==
    IF s \in TrueTexts THEN [ok |-> TRUE, b |-> TRUE]
    ELSE IF s \in FalseTexts THEN [ok |-> TRUE, b |-> FALSE]
    ELSE [ok |-> FALSE, b |-> FALSE]

(***************************************************************************)
(* Value coercion and defaults.  A result is the value and the error:      *)
(* "nil", "nodefault" (errNoDefaultValue), "parse", "unknown", "cannotset",*)
(* "notfound" (ErrFieldNotFound), "panic" (a panic of package reflect) or  *)
(* "errElemNotSet" (the panic of Config.get).                              *)
(***************************************************************************)
Res(val, e) == [val |-> val, e |-> e]

IntBits == ("int" :> 64) @@ ("int8" :> 8)

\* strconv.ParseInt gave r for a field of kind k
intResult(k, r) == IF r.ok THEN Res([k |-> k, t |-> k, v |-> r.n], "nil") ELSE Res(Invalid, "parse")

\* strconv.ParseBool gave r
boolResult(r) == IF r.ok THEN Res(BoolV(r.b), "nil") ELSE Res(Invalid, "parse")

\* valueFromString(val, fld, fldval)
valueFromString(val, fld) ==
    Bind(KindOf(fld.t), LAMBDA k :
        CASE k = "string" -> Res(StrV(val), "nil")
          [] k \in DOMAIN IntBits -> Bind(ParseInt(val, IntBits[k]), LAMBDA r : intResult(k, r))
          [] k = "bool" -> Bind(ParseBool(val), LAMBDA r : boolResult(r))
          [] k = "slice" -> Res(Invalid, "panic")
          \* case reflect.Complex64, reflect.Complex128: result is left the zero
          \* reflect.Value and err nil
          [] k \in {"complex64", "complex128"} -> Res(Invalid, "nil")
          [] OTHER -> Res(Invalid, "unknown"))

\* os.Getenv
Getenv(e, name) == IF name \in DOMAIN e THEN e[name] ELSE <<>>

\* getDefaultValue(fld, fldval)
getDefaultValue(e, fld) ==
    Bind(IF fld.tag["env"] # <<>> THEN Getenv(e, fld.tag["env"]) ELSE fld.tag["default"],
         LAMBDA val : IF val = <<>> THEN Res(Invalid, "nodefault") ELSE valueFromString(val, fld))

Upper ==
    {"@", "A", "B", "C", "D", "E", "F", "G", "H", "I", "J", "K", "L", "M", "N", "O", "P",
     "Q", "R", "S", "T", "U", "V", "W", "X", "Y", "Z"}

\* mutant of keepsValue: a field that is set is defaulted again
keepsValueNever(fld, v) == FALSE

\* setDefaults: a field that the user has set is not overridden
keepsValue(fld, v) == fld.name[1] \in Upper /\ ~isZero(v)

RECURSIVE setDefaults(_, _, _)
RECURSIVE setDefaultsFrom(_, _, _, _, _)

\* the first error of the loop
First(seterr, e) == IF seterr = "nil" THEN e ELSE seterr

\* field i is a struct and setDefaults(fldVal) gave r
setDefaultsNested(e, val, i, seterr, r) ==
    IF r.e = "panic" THEN r ELSE setDefaultsFrom(r.h, e, val, i + 1, First(seterr, r.e))

\* field i is to be defaulted and getDefaultValue gave d
setDefaultsField(h, e, val, i, seterr, fldVal, fldType, d) ==
    CASE d.e = "nodefault" -> setDefaultsFrom(h, e, val, i + 1, seterr)
      [] d.e # "nil" /\ d.e # "nodefault" -> [h |-> h, e |-> d.e]
      [] OTHER ->
            IF fldVal.can /\ fldType.name[1] \in Upper
            THEN \* fldVal.Set(defval) panics for the zero reflect.Value
                 IF d.val.k = "invalid" THEN Panic(h)
                 ELSE Bind(Store(h, fldVal, d.val), LAMBDA h2 :
                        setDefaultsFrom(h2, e, val, i + 1, seterr))
            ELSE setDefaultsFrom(h, e, val, i + 1, First(seterr, "cannotset"))

\* the loop of setDefaults over the fields of val, from field i on
setDefaultsFrom(h, e, val, i, seterr) ==
    Bind(ValOf(h, val), LAMBDA x :
        IF i > NumField(x) THEN [h |-> h, e |-> seterr]
        ELSE
            Bind(Field(h, val, i), LAMBDA fldVal :
            Bind(FieldsOf(x.t)[i], LAMBDA fldType :
            Bind(ValOf(h, fldVal), LAMBDA fv :
                IF fv.k = "struct"
                THEN Bind(setDefaults(h, e, fldVal), LAMBDA r :
                        setDefaultsNested(e, val, i, seterr, r))
                ELSE IF keepsValue(fldType, fv) THEN setDefaultsFrom(h, e, val, i + 1, seterr)
                ELSE Bind(getDefaultValue(e, fldType), LAMBDA d :
                        setDefaultsField(h, e, val, i, seterr, fldVal, fldType, d))))))

\* setDefaults(val): val.Type() panics on the zero Value
setDefaults(h, e, val) ==
    IF ValOf(h, val).k # "struct" THEN Panic(h) ELSE setDefaultsFrom(h, e, val, 1, "nil")

\* mutant of isCorrectLabel: the test for the empty key is left out
isCorrectLabelOfEmpty(key, field) ==
    \/ \E tag \in {"config", "yaml", "json"} : Split(field.tag[tag], ",")[1] = key
    \/ field.name = key

\* isCorrectLabel(key, field)
isCorrectLabel(key, field) ==
    IF Len(key) = 0 THEN FALSE
    ELSE \/ \E tag \in {"config", "yaml", "json"} : Split(field.tag[tag], ",")[1] = key
         \/ field.name = key

Found(h, val, e) == [h |-> h, val |-> val, e |-> e]

RECURSIVE find(_, _, _, _)

\* mutant of findDefault: the default found is written into the struct
findDefaultStores(h, value, d) ==
    CASE d.e = "nodefault" -> Found(h, ValOf(h, value), "nil")
      [] d.e = "nil" -> Found(IF value.can THEN Store(h, value, d.val) ELSE h, d.val, "nil")
      [] OTHER -> Found(h, d.val, d.e)

\* find: the switch on the error of getDefaultValue, which gave d for the zero
\* field value
findDefault(h, value, d) ==
    CASE d.e = "nodefault" -> Found(h, ValOf(h, value), "nil")
      [] d.e = "nil" -> Found(h, d.val, "nil")
      [] OTHER -> Found(h, d.val, d.e)

\* the first field of struct type t whose label is key, 0 when there is none
Matching(t, key) ==
    LET fs == FieldsOf(t)
        hits == {i \in 1..Len(fs) : isCorrectLabel(key, fs[i])}
    IN IF hits = {} THEN 0 ELSE CHOOSE i \in hits : \A j \in hits : i <= j

\* mutant of findField: the default is looked up before the value of the field
findFieldDefaultFirst(h, e, val, keyPath, fld, value) ==
    IF Len(keyPath) > 1 THEN find(h, e, value, Tail(keyPath))
    ELSE Bind(getDefaultValue(e, fld), LAMBDA d : findDefault(h, value, d))

\* find: field i of val carries the label keyPath[0]
findField(h, e, val, keyPath, fld, value) ==
    IF Len(keyPath) > 1 THEN find(h, e, value, Tail(keyPath))
    ELSE IF ~isZero(ValOf(h, value)) THEN Found(h, ValOf(h, value), "nil")
    ELSE Bind(getDefaultValue(e, fld), LAMBDA d : findDefault(h, value, d))

\* find(val, keyPath): val.Type().NumField() panics unless val is a struct
find(h, e, val, keyPath) ==
    Bind(ValOf(h, val), LAMBDA x :
        IF x.k # "struct" THEN Found(h, Invalid, "panic")
        ELSE
            Bind(Matching(x.t, keyPath[1]), LAMBDA i :
                IF i = 0 THEN Found(h, Invalid, "notfound")
                ELSE Bind(Field(h, val, i), LAMBDA value :
                        findField(h, e, val, keyPath, FieldsOf(x.t)[i], value))))

RECURSIVE hasKey(_, _, _)
\* hasKey(val, keyPath): "panic" where val.Type().NumField() panics
hasKey(h, val, keyPath) ==
    Bind(ValOf(h, val), LAMBDA x :
        IF x.k # "struct" THEN Res(Invalid, "panic")
        ELSE
            Bind(Matching(x.t, keyPath[1]), LAMBDA i :
                IF i = 0 THEN Res(BoolV(FALSE), "nil")
                ELSE IF Len(keyPath) = 1 THEN Res(BoolV(TRUE), "nil")
                ELSE hasKey(h, Field(h, val, i), Tail(keyPath))))

\* mutant of get: the check of Config.elem is left out
getUnchecked(h, e, el, k) == Bind(Split(k, "."), LAMBDA keys : find(h, e, el, keys))

\* Config.get(key): panic(errElemNotSet) before a config struct is set
get(h, e, el, k) ==
    IF ValOf(h, el).k = "invalid" THEN Found(h, Invalid, "errElemNotSet")
    ELSE Bind(Split(k, "."), LAMBDA keys : find(h, e, el, keys))

(***************************************************************************)
(* The configuration specification: SetConfig, then InitDefaults and the   *)
(* accessors in any order.  A panic ends the run.                          *)
(***************************************************************************)
TEST_A == <<"T", "E", "S", "T", "_", "A">>
EnvA == {<<>>, (TEST_A :> <<"v">>)}
EnvE == {<<>>, (<<"E">> :> <<>>), (<<"E">> :> <<"7">>), (<<"E">> :> <<"x">>)}

\* the keys the accessors are called with
ConfKeys ==
    {<<"a">>, <<"b">>, <<"E">>, <<"N">>,
     <<"i", "n", "n", "e", "r", ".", "O", "t", "h", "e", "r">>,
     <<"b", ".", "x">>, <<"z", "z">>}

\* the values the program assigns to the fields of its config struct
ConfStructs ==
    {StructV("C", <<StrV(a), IntV(b), Int8V(e), BoolV(FALSE), IntV(0),
                    StructV("CInner", <<StrV(<<>>), IntV(o)>>)>>) :
        a \in {<<>>, <<"s">>}, b \in {0, 5}, e \in {0, 5}, o \in {0, 7}}

\* the keys of the getters specification: labels of G by tag and by field name,
\* a label in another case, paths into Sub, paths that go on after a field that
\* is no struct, the empty key and a path with an empty segment
GetterKeys ==
    {<<"p", "o", "r", "t">>, <<"P", "o", "r", "t">>, <<"P", "O", "R", "T">>,
     <<"n", "a", "m", "e">>, <<"o", "n">>, <<"L">>, <<"M">>, <<"s", "u", "b">>,
     <<"s", "u", "b", ".", "X">>, <<"s", "u", "b", ".", "z">>, <<"s", "u", "b", ".">>,
     <<"z", "z">>, <<>>,
     <<"p", "o", "r", "t", ".", "x">>, <<"M", ".", "x">>, <<"P", ".", "x">>}

\* the keys the accessors are called with, for each schema
CallKeys ==
    ("C" :> ConfKeys) @@ ("G" :> GetterKeys) @@ ("K" :> {<<"i">>, <<"c">>, <<"Z">>, <<"U">>}) @@
    ("R" :> {<<"A">>, <<"S">>, <<"I", "n", ".", "V">>})

\* a config struct of type G in the memory: L at cell 2, M at cell 3, P at cell 4
GStruct(port, name, on, l, m, p) ==
    <<StructV("G", <<IntV(port), StrV(name), BoolV(on), SliceV("[]int", l),
                     MapV("map[string]string", m), PtrV("*int", p),
                     StructV("GSub", <<IntV(port)>>)>>),
      ArrCell(<<IntV(1)>>), MapCell(<<"k">> :> StrV(<<"v">>)), IntV(3)>>

\* the memories the program of the getters specification starts from
GetterStructs ==
    {GStruct(0, <<>>, FALSE, 0, 0, 0), GStruct(5, <<"s">>, TRUE, 2, 3, 4),
     GStruct(5, <<>>, FALSE, 0, 3, 0), GStruct(0, <<"s">>, TRUE, 2, 0, 4)}

\* the config structs of the defaults walk specification
WalkStructs ==
    {StructV("D", <<IntV(p), Int8V(0), StructV("DIn", <<Int8V(x), IntV(y)>>), IntV(q)>>) :
        p \in {0, 5}, x \in {0, 5}, y \in {0, 5}, q \in {0, 5}}

\* the texts of the variables W and E: unset, a number, no number
EnvW == {<<>>, (<<"W">> :> <<"7">>), (<<"W">> :> <<"x">>)}
EnvX == {<<>>, (<<"E">> :> <<"7">>), (<<"E">> :> <<"x">>)}

\* the config structs of the complex numbers specification
ComplexStructs ==
    {StructV("K", <<IntV(i), ComplexV("complex128", c), ComplexV("complex64", z),
                    ComplexV("complex128", u)>>) :
        i \in {0, 5}, c \in {0, 1}, z \in {0, 1}, u \in {0, 1}}

\* the config structs of the flags specification
FlagStructs ==
    {StructV("F", <<Int8V(a), IntV(0), BoolV(on), StructV("FName", <<IntV(0)>>),
                    StructV("FOff", <<IntV(0)>>)>>) :
        a \in {0, 1}, on \in {FALSE, TRUE}}

\* the state of a program of schema s before SetConfig
ConfStart(s) ==
    /\ heap = <<>>
    /\ heap0 = <<>>
    /\ heap1 = <<>>
    /\ pc = "init"
    /\ err = "none"
    /\ err2 = "none"
    /\ elem = RV(Invalid)
    /\ ret = Invalid
    /\ lastKey = <<>>
    /\ schema = s
    /\ config = Invalid
    /\ MergeIdle
    /\ CopyIdle

InitConfig ==
    /\ ConfStart("C")
    /\ FlagIdle
    /\ FilesIdle
    /\ WatchIdle
    /\ \E ea \in EnvA, ee \in EnvE : env = ea @@ ee

\* the config struct in the memory h
Conf(h) == ValOf(h, elem)

\* the outcomes that are a panic
Panics == {"panic", "errElemNotSet"}

Running == err \notin Panics

\* the memories a program of each schema starts from: the config struct is cell 1
Structs ==
    ("C" :> {<<c>> : c \in ConfStructs}) @@ ("G" :> GetterStructs) @@
    ("D" :> {<<c>> : c \in WalkStructs}) @@ ("F" :> {<<c>> : c \in FlagStructs}) @@
    ("R" :> {<<Zero("R")>>}) @@ ("K" :> {<<c>> : c \in ComplexStructs})

\* SetConfig(conf): conf is a pointer to the struct, the struct itself, or a nil
\* pointer
SetConfig ==
    /\ pc = "init"
    /\ \/ \E h \in Structs[schema] :
            /\ heap' = h
            /\ \/ config' = PtrV(PtrTo(schema), 1)
               \/ config' = h[1]
       \/ /\ heap' = heap
          /\ config' = PtrV(PtrTo(schema), 0)
    /\ elem' = IF config'.k = "ptr" THEN Elem(heap', RV(config')) ELSE RV(config')
    /\ heap0' = heap'
    /\ pc' = "SetConfig"
    /\ err' = "nil"
    /\ UNCHANGED <<heap1, err2, env, ret, lastKey, schema, mergeVars, copyVars, flagVars, files, watch>>

\* the fields the program assigns directly, and the value it assigns
Assigned ==
    ("C" :> (<<1>> :> StrV(<<"s">>))) @@
    ("R" :> ((<<1>> :> IntV(3)) @@ (<<3, 1>> :> IntV(3))))

\* conf.F = v: the program assigns a field of the struct it passed by pointer
Assign ==
    /\ Running
    /\ elem.can
    /\ \E p \in DOMAIN Assigned[schema] :
        /\ GetPath(Conf(heap), p) # Assigned[schema][p]
        /\ heap' = Store(heap, LV(elem.loc.a, p), Assigned[schema][p])
    /\ heap1' = heap
    /\ heap0' = heap
    /\ pc' = "Assign"
    /\ ret' = Invalid
    /\ lastKey' = <<>>
    /\ UNCHANGED <<err, err2, elem, env, schema, config, mergeVars, copyVars, flagVars, files, watch>>

\* InitDefaults()
InitDefaults ==
    /\ Running
    /\ \E r \in {setDefaults(heap, env, elem)} :
        /\ heap' = r.h
        /\ err' = r.e
    /\ heap0' = heap
    /\ pc' = "InitDefaults"
    /\ ret' = Invalid
    /\ lastKey' = <<>>
    /\ UNCHANGED <<heap1, err2, elem, env, schema, config, mergeVars, copyVars, flagVars, files, watch>>

\* an accessor op called with k returned v and left the memory h
Returns(op, k, h, v, e) ==
    /\ heap' = h
    /\ heap0' = heap
    /\ pc' = op
    /\ lastKey' = k
    /\ ret' = v
    /\ err' = e
    /\ UNCHANGED <<heap1, err2, elem, env, schema, config, mergeVars, copyVars, flagVars, files, watch>>

\* Get(key): nil when get returns an error
Get ==
    /\ Running
    /\ \E k \in CallKeys[schema] :
        \E r \in {get(heap, env, elem, k)} :
        IF r.e \in Panics THEN Returns("Get", k, r.h, Invalid, r.e)
        \* val.Interface() panics for the zero reflect.Value
        ELSE IF r.e = "nil" /\ r.val.k = "invalid" THEN Returns("Get", k, r.h, Invalid, "panic")
        ELSE Returns("Get", k, r.h, IF r.e # "nil" THEN Invalid ELSE r.val, "nil")

\* reflect.Value.String: the text of a string, "<T Value>" for another type
String(v) ==
    IF v.k = "string" THEN v.v
    ELSE IF v.k = "invalid" THEN <<"<", "invalid", " Value>">>
    ELSE <<"<", v.t, " Value>">>

\* GetStringErr(key)
GetStringErr ==
    /\ Running
    /\ \E k \in CallKeys[schema] :
        \E r \in {get(heap, env, elem, k)} :
        IF r.e # "nil" THEN Returns("GetStringErr", k, r.h, StrV(<<>>), r.e)
        ELSE Returns("GetStringErr", k, r.h, StrV(String(r.val)), "nil")

\* GetIntErr(key): reflect.Value.Int panics unless the kind is an int kind
GetIntErr ==
    /\ Running
    /\ \E k \in CallKeys[schema] :
        \E r \in {get(heap, env, elem, k)} :
        IF r.e # "nil" THEN Returns("GetIntErr", k, r.h, IntV(0), r.e)
        ELSE IF r.val.k \notin DOMAIN IntBits THEN Returns("GetIntErr", k, r.h, IntV(0), "panic")
        ELSE Returns("GetIntErr", k, r.h, IntV(r.val.v), "nil")

\* GetErr(key)
GetErr ==
    /\ Running
    /\ \E k \in CallKeys[schema] :
        \E r \in {get(heap, env, elem, k)} :
        IF r.e = "nil" /\ r.val.k = "invalid" THEN Returns("GetErr", k, r.h, Invalid, "panic")
        ELSE Returns("GetErr", k, r.h, IF r.e # "nil" THEN Invalid ELSE r.val, r.e)

\* GetString(key): s, _ := c.GetStringErr(key)
GetString ==
    /\ Running
    /\ \E k \in CallKeys[schema] :
        \E r \in {get(heap, env, elem, k)} :
        CASE r.e \in Panics -> Returns("GetString", k, r.h, Invalid, r.e)
          [] r.e \notin Panics /\ r.e # "nil" -> Returns("GetString", k, r.h, StrV(<<>>), "nil")
          [] OTHER -> Returns("GetString", k, r.h, StrV(String(r.val)), "nil")

\* GetInt(key): i, _ := c.GetIntErr(key)
GetInt ==
    /\ Running
    /\ \E k \in CallKeys[schema] :
        \E r \in {get(heap, env, elem, k)} :
        CASE r.e \in Panics -> Returns("GetInt", k, r.h, Invalid, r.e)
          [] r.e \notin Panics /\ r.e # "nil" -> Returns("GetInt", k, r.h, IntV(0), "nil")
          [] OTHER ->
                IF r.val.k \notin DOMAIN IntBits THEN Returns("GetInt", k, r.h, Invalid, "panic")
                ELSE Returns("GetInt", k, r.h, IntV(r.val.v), "nil")

\* GetBoolErr(key): reflect.Value.Bool panics unless the kind is bool
GetBoolErr ==
    /\ Running
    /\ \E k \in CallKeys[schema] :
        \E r \in {get(heap, env, elem, k)} :
        IF r.e # "nil" THEN Returns("GetBoolErr", k, r.h, BoolV(FALSE), r.e)
        ELSE IF r.val.k # "bool" THEN Returns("GetBoolErr", k, r.h, BoolV(FALSE), "panic")
        ELSE Returns("GetBoolErr", k, r.h, r.val, "nil")

\* GetBool(key)
GetBool ==
    /\ Running
    /\ \E k \in CallKeys[schema] :
        \E r \in {get(heap, env, elem, k)} :
        CASE r.e \in Panics -> Returns("GetBool", k, r.h, Invalid, r.e)
          [] r.e \notin Panics /\ r.e # "nil" -> Returns("GetBool", k, r.h, BoolV(FALSE), "nil")
          [] OTHER ->
                IF r.val.k # "bool" THEN Returns("GetBool", k, r.h, Invalid, "panic")
                ELSE Returns("GetBool", k, r.h, r.val, "nil")

\* GetIntSlice(key): nil on an error, for a value that is no slice and for a
\* slice that is no []int
GetIntSlice ==
    /\ Running
    /\ \E k \in CallKeys[schema] :
        \E r \in {get(heap, env, elem, k)} :
        CASE r.e \in Panics -> Returns("GetIntSlice", k, r.h, Invalid, r.e)
          [] r.e \notin Panics /\ r.e # "nil" ->
                Returns("GetIntSlice", k, r.h, SliceV("[]int", 0), "nil")
          [] OTHER ->
                IF r.val.k # "slice" \/ r.val.t # "[]int"
                THEN Returns("GetIntSlice", k, r.h, SliceV("[]int", 0), "nil")
                ELSE Returns("GetIntSlice", k, r.h, r.val, "nil")

\* the map GetStringMap makes of the map value v: the String() of each value
StringMap(h, v) ==
    [k |-> "newmap",
     m |-> IF v.a = 0 THEN <<>> ELSE [key \in DOMAIN h[v.a].m |-> String(h[v.a].m[key])]]

\* GetStringMap(key): nil on an error and for a value that is no map
GetStringMap ==
    /\ Running
    /\ \E k \in CallKeys[schema] :
        \E r \in {get(heap, env, elem, k)} :
        CASE r.e \in Panics -> Returns("GetStringMap", k, r.h, Invalid, r.e)
          [] r.e \notin Panics /\ r.e # "nil" ->
                Returns("GetStringMap", k, r.h, MapV("map[string]string", 0), "nil")
          [] OTHER ->
                IF r.val.k # "map"
                THEN Returns("GetStringMap", k, r.h, MapV("map[string]string", 0), "nil")
                ELSE Returns("GetStringMap", k, r.h, StringMap(r.h, r.val), "nil")

\* HasKey(key)
HasKey ==
    /\ Running
    /\ \E k \in CallKeys[schema] :
        \E r \in {hasKey(heap, elem, Split(k, "."))} :
        Returns("HasKey", k, heap, r.val, r.e)

\* IsEmpty(key)
IsEmpty ==
    /\ Running
    /\ \E k \in CallKeys[schema] :
        \E r \in {get(heap, env, elem, k)} :
        CASE r.e \in Panics -> Returns("IsEmpty", k, r.h, Invalid, r.e)
          [] r.e # "nil" -> Returns("IsEmpty", k, r.h, BoolV(TRUE), "nil")
          [] r.val.k = "invalid" -> Returns("IsEmpty", k, r.h, BoolV(FALSE), "nil")
          [] OTHER -> Returns("IsEmpty", k, r.h, BoolV(IsZero(r.val)), "nil")

NextConfig ==
    \/ SetConfig
    \/ InitDefaults
    \/ Assign
    \/ Get
    \/ GetStringErr
    \/ GetIntErr
    \/ HasKey
    \/ IsEmpty

SpecConfig == InitConfig /\ [][NextConfig]_vars

(***************************************************************************)
(* Flag binding.  A flag set maps the name of each flag to its value: the  *)
(* reflect.Value and the field of a flagValue, or the *bool of BoolVar.    *)
(***************************************************************************)
RECURSIVE Trim(_)
\* strings.Trim(p, " ")
Trim(p) ==
    IF p = <<>> THEN p
    ELSE IF Head(p) = " " THEN Trim(Tail(p))
    ELSE IF p[Len(p)] = " " THEN Trim(SubSeq(p, 1, Len(p) - 1))
    ELSE p

NotFlag == <<"n", "o", "t", "f", "l", "a", "g">>

\* mutant of getFlagInfo: notflag is not looked at
getFlagInfoAlways(field) ==
    Bind(Split(field.tag["config"], ","), LAMBDA parts :
        [name |-> IF parts[1] = <<>> THEN field.name ELSE parts[1], ok |-> TRUE])

\* getFlagInfo(field): the name and whether the field is a flag
getFlagInfo(field) ==
    Bind(Split(field.tag["config"], ","), LAMBDA parts :
        IF \E i \in 2..Len(parts) : Trim(parts[i]) = NotFlag
        THEN [name |-> parts[1], ok |-> FALSE]
        ELSE [name |-> IF parts[1] = <<>> THEN field.name ELSE parts[1], ok |-> TRUE])

\* mutant of flagName: the name of the enclosing struct is left out
flagNameFlat(basename, name, d) == name

\* bindFlags: name = basename + string(nestedFlagDelim) + name
flagName(basename, name, d) ==
    IF basename # <<>> THEN basename \o <<d>> \o name ELSE name

Bound(h, set, e) == [h |-> h, set |-> set, e |-> e]

\* flag.FlagSet.Var, pflag.FlagSet.AddFlag: a name that is taken panics
Register(h, set, name, fv) ==
    IF name \in DOMAIN set THEN Bound(h, set, "panic")
    ELSE Bound(h, (name :> fv) @@ set, "nil")

\* &flagValue{val: &fldval, fld: &fldtyp}
FlagValue(fldval, fldtyp) == [val |-> fldval, fld |-> fldtyp, boolvar |-> FALSE]

\* flag.FlagSet.BoolVar(p, name, value, usage): *p = value, then Var
BoolVar(h, set, name, fldval, fldtyp, value) ==
    Register(Store(h, fldval, BoolV(value)), set, name,
             [val |-> fldval, fld |-> fldtyp, boolvar |-> TRUE])

RECURSIVE bindFlags(_, _, _, _, _, _)
RECURSIVE bindFlagsFrom(_, _, _, _, _, _, _)

\* bindFlags: field i is a flag with this name and no override disables it
bindFlagsField(h, el, basename, set, res, d, i, fldtyp, fldval, name) ==
    CASE KindOf(fldtyp.t) = "struct" ->
            Bind(bindFlags(h, fldval, name, set, res, d), LAMBDA r :
                IF r.e # "nil" THEN r
                ELSE bindFlagsFrom(r.h, el, basename, r.set, res, d, i + 1))
      [] KindOf(fldtyp.t) = "map" -> Bound(h, set, "panic")
      [] OTHER ->
            Bind(IF KindOf(fldtyp.t) = "bool" /\ fldval.can
                 THEN BoolVar(h, set, name, fldval, fldtyp,
                              fldtyp.tag["default"] = <<"t", "r", "u", "e">>)
                 ELSE Register(h, set, name, FlagValue(fldval, fldtyp)),
                 LAMBDA r :
                    IF r.e # "nil" THEN r
                    ELSE bindFlagsFrom(r.h, el, basename, r.set, res, d, i + 1))

\* the loop of bindFlags over the fields of el, from field i on
bindFlagsFrom(h, el, basename, set, res, d, i) ==
    IF i > NumField(ValOf(h, el)) THEN Bound(h, set, "nil")
    ELSE
        Bind(FieldsOf(ValOf(h, el).t)[i], LAMBDA fldtyp :
        Bind(getFlagInfo(fldtyp), LAMBDA info :
            IF ~info.ok THEN bindFlagsFrom(h, el, basename, set, res, d, i + 1)
            ELSE IF flagName(basename, info.name, d) \in res
            THEN bindFlagsFrom(h, el, basename, set, res, d, i + 1)
            ELSE bindFlagsField(h, el, basename, set, res, d, i, fldtyp, Field(h, el, i),
                                flagName(basename, info.name, d))))

\* bindFlags(elem, basename, set, resolvers): elem.Type() panics on the zero Value
bindFlags(h, el, basename, set, res, d) ==
    IF ValOf(h, el).k # "struct" THEN Bound(h, set, "panic")
    ELSE bindFlagsFrom(h, el, basename, set, res, d, 1)

RECURSIVE bindPFlags(_, _, _, _, _, _)
RECURSIVE bindPFlagsFrom(_, _, _, _, _, _, _)

\* bindPFlags: field i is a flag with this name and no override disables it
bindPFlagsField(h, el, basename, set, res, d, i, fldtyp, fldval, name) ==
    CASE KindOf(fldtyp.t) = "struct" ->
            Bind(bindPFlags(h, fldval, name, set, res, d), LAMBDA r :
                IF r.e # "nil" THEN r
                ELSE bindPFlagsFrom(r.h, el, basename, r.set, res, d, i + 1))
      [] KindOf(fldtyp.t) = "map" -> Bound(h, set, "panic")
      [] OTHER ->
            Bind(Register(h, set, name, FlagValue(fldval, fldtyp)), LAMBDA r :
                IF r.e # "nil" THEN r
                ELSE bindPFlagsFrom(r.h, el, basename, r.set, res, d, i + 1))

\* the loop of bindPFlags over the fields of el, from field i on
bindPFlagsFrom(h, el, basename, set, res, d, i) ==
    IF i > NumField(ValOf(h, el)) THEN Bound(h, set, "nil")
    ELSE
        Bind(FieldsOf(ValOf(h, el).t)[i], LAMBDA fldtyp :
        Bind(getFlagInfo(fldtyp), LAMBDA info :
            IF ~info.ok THEN bindPFlagsFrom(h, el, basename, set, res, d, i + 1)
            ELSE IF flagName(basename, info.name, d) \in res
            THEN bindPFlagsFrom(h, el, basename, set, res, d, i + 1)
            ELSE bindPFlagsField(h, el, basename, set, res, d, i, fldtyp, Field(h, el, i),
                                 flagName(basename, info.name, d))))

\* bindPFlags(elem, basename, set, resolvers)
bindPFlags(h, el, basename, set, res, d) ==
    IF ValOf(h, el).k # "struct" THEN Bound(h, set, "panic")
    ELSE bindPFlagsFrom(h, el, basename, set, res, d, 1)

\* mutant of flagValueSet: a field that holds a value is not written again
flagValueSetOnce(h, fv, s) ==
    Bind(valueFromString(s, fv.fld), LAMBDA r :
        IF r.e # "nil" THEN [h |-> h, e |-> r.e]
        ELSE IF ~fv.val.can THEN Panic(h)
        ELSE IF ~IsZero(ValOf(h, fv.val)) THEN Ok(h)
        ELSE Ok(Store(h, fv.val, r.val)))

\* flagValue.Set(s): reflect.Value.Set panics on a value that is not addressable
flagValueSet(h, fv, s) ==
    Bind(valueFromString(s, fv.fld), LAMBDA r :
        IF r.e # "nil" THEN [h |-> h, e |-> r.e]
        ELSE IF ~fv.val.can THEN Panic(h)
        ELSE Ok(Store(h, fv.val, r.val)))

\* the Set of the boolValue that BoolVar makes: strconv.ParseBool
boolValueSet(h, fv, s) ==
    Bind(ParseBool(s), LAMBDA r :
        IF r.ok THEN Ok(Store(h, fv.val, BoolV(r.b))) ELSE [h |-> h, e |-> "parse"])

\* flag.Value.Set of a registered flag
ValueSet(h, fv, s) == IF fv.boolvar THEN boolValueSet(h, fv, s) ELSE flagValueSet(h, fv, s)

(***************************************************************************)
(* The flags specification: SetConfig on a struct of type F, then binding  *)
(* to a flag set or a pflag set, setting flags and changing the delimiter, *)
(* in any order.                                                           *)
(***************************************************************************)
\* the DisableFlag overrides a program passes: none, names that are derived
\* with either delimiter, and names that no field derives
DisableSets ==
    {{}, {<<"A">>}, {<<"i", "n", "n", "e", "r">>},
     {<<"i", "n", "n", "e", "r", ".", "V", "a", "l">>},
     {<<"o", "n">>, <<"i", "n", "n", "e", "r", "-", "V", "a", "l">>},
     {<<"O", "n">>, <<"V", "a", "l">>, <<"t">>, <<"n", "o", "p", "e">>}}

\* the texts flags are set to
FlagTexts == {<<"0">>, <<"1">>, <<"x">>, <<"1", "2", "8">>}

InitFlags ==
    /\ ConfStart("F")
    /\ env = <<>>
    /\ flagset = <<>>
    /\ pflagset = <<>>
    /\ delim = "-"
    /\ overrides \in DisableSets
    /\ FilesIdle
    /\ WatchIdle

\* SetNestedFlagDelim(delim)
SetNestedFlagDelim ==
    /\ Running
    /\ \E d \in {"-", "."} :
        /\ d # delim
        /\ delim' = d
    /\ pc' = "SetNestedFlagDelim"
    /\ UNCHANGED <<heap, heap0, heap1, err, err2, confVars, mergeVars, copyVars,
                   flagset, pflagset, overrides, files, watch>>

\* BindToFlagSet(set, resolvers...)
BindToFlagSet ==
    /\ Running
    /\ \E r \in {bindFlags(heap, elem, <<>>, flagset, overrides, delim)} :
        /\ heap' = r.h
        /\ flagset' = r.set
        /\ err' = r.e
    /\ heap0' = heap
    /\ pc' = "BindToFlagSet"
    /\ ret' = Invalid
    /\ lastKey' = <<>>
    /\ UNCHANGED <<heap1, err2, elem, env, schema, config, mergeVars, copyVars,
                   pflagset, delim, overrides, files, watch>>

\* BindToPFlagSet(set, resolvers...)
BindToPFlagSet ==
    /\ Running
    /\ \E r \in {bindPFlags(heap, elem, <<>>, pflagset, overrides, delim)} :
        /\ heap' = r.h
        /\ pflagset' = r.set
        /\ err' = r.e
    /\ heap0' = heap
    /\ pc' = "BindToPFlagSet"
    /\ ret' = Invalid
    /\ lastKey' = <<>>
    /\ UNCHANGED <<heap1, err2, elem, env, schema, config, mergeVars, copyVars,
                   flagset, delim, overrides, files, watch>>

\* the flag name of set was set to the text t
FlagSet(op, set, name, t) ==
    /\ \E r \in {ValueSet(heap, set[name], t)} :
        /\ heap' = r.h
        /\ err' = r.e
    /\ heap0' = heap
    /\ pc' = op
    /\ lastKey' = name
    /\ ret' = StrV(t)
    /\ UNCHANGED <<heap1, err2, elem, env, schema, config, mergeVars, copyVars, flagVars, files, watch>>

\* flag.FlagSet.Set(name, value) on a flag that is registered
Set ==
    /\ Running
    /\ \E name \in DOMAIN flagset, t \in FlagTexts : FlagSet("Set", flagset, name, t)

\* pflag.FlagSet.Set(name, value) on a flag that is registered
PSet ==
    /\ Running
    /\ \E name \in DOMAIN pflagset, t \in FlagTexts : FlagSet("PSet", pflagset, name, t)

NextFlags ==
    \/ SetConfig
    \/ SetNestedFlagDelim
    \/ BindToFlagSet
    \/ BindToPFlagSet
    \/ Set
    \/ PSet

SpecFlags == InitFlags /\ [][NextFlags]_vars

(***************************************************************************)
(* Config files.  files holds Config.filepaths, Config.paths and           *)
(* Config.filenames and the file system: the payload of every file that    *)
(* exists.  A payload gives a value to some of the fields A, S, In.V and M *)
(* of R, as a yaml or json text does.                                      *)
(***************************************************************************)
\* filepath.Join(d, f)
Join(d, f) == <<d, f>>

\* fileExists(p): os.Stat finds p, and p is no directory
fileExists(c, p) == p \in DOMAIN c.fs /\ c.st[p] # "dir"

RECURSIVE existingIn(_, _, _)
\* existingFiles: the files of directory d, from filename i on
existingIn(c, d, i) ==
    IF i > Len(c.filenames) THEN <<>>
    ELSE (IF fileExists(c, Join(d, c.filenames[i])) THEN <<Join(d, c.filenames[i])>> ELSE <<>>)
            \o existingIn(c, d, i + 1)

RECURSIVE existingFrom(_, _)
\* existingFiles: the loop over Config.paths, from path i on
existingFrom(c, i) ==
    IF i > Len(c.paths) THEN <<>> ELSE existingIn(c, c.paths[i], 1) \o existingFrom(c, i + 1)

\* existingFiles(c)
existingFiles(c) ==
    SelectSeq(c.filepaths, LAMBDA p : fileExists(c, p)) \o existingFrom(c, 1)

\* the field of R that each key of a payload sets
PayloadPath == ("A" :> <<1>>) @@ ("S" :> <<2>>) @@ ("V" :> <<3, 1>>)

RECURSIVE unmarshalKeys(_, _, _, _)
\* unmarshal: the keys of the payload that are still to be stored
unmarshalKeys(h, target, raw, keys) ==
    IF keys = {} THEN h
    ELSE
        Bind(CHOOSE k \in keys : TRUE, LAMBDA k :
            IF k = "M" /\ GetPath(h[target.loc.a], <<4>>).a = 0
            THEN unmarshalKeys(
                    Store(Append(h, MapCell(raw[k])), LV(target.loc.a, <<4>>),
                          MapV("map[string]int", Len(h) + 1)),
                    target, raw, keys \ {k})
            ELSE IF k = "M"
            THEN \* a map that is not nil is kept, and the entries are stored in it
                 unmarshalKeys(
                    [h EXCEPT ![GetPath(h[target.loc.a], <<4>>).a] = MapCell(raw[k] @@ @.m)],
                    target, raw, keys \ {k})
            ELSE unmarshalKeys(Store(h, LV(target.loc.a, PayloadPath[k]), raw[k]),
                               target, raw, keys \ {k}))

\* the error of reading each file (an *os.PathError, which names the file) and
\* the error of unmarshalling the text of each file
PathError ==
    (<<"x">> :> "open x") @@ (<<"d1", "f">> :> "open d1/f") @@ (<<"d1", "g">> :> "open d1/g") @@
    (<<"d2", "f">> :> "open d2/f") @@ (<<"d2", "g">> :> "open d2/g")
UnmarshalError ==
    (<<"x">> :> "unmarshal x") @@ (<<"d1", "f">> :> "unmarshal d1/f") @@
    (<<"d1", "g">> :> "unmarshal d1/g") @@ (<<"d2", "f">> :> "unmarshal d2/f") @@
    (<<"d2", "g">> :> "unmarshal d2/g")

\* ioutil.ReadFile(p) of a file that exists: the bytes, or nil and an error.  The
\* bytes are the name of the file they come from, what a decoder makes of them
\* (st) and the fields they give a value (data).
ReadFile(c, p) ==
    IF c.st[p] = "denied" THEN [raw |-> [name |-> p, st |-> "empty", data |-> <<>>],
                                e |-> PathError[p]]
    ELSE [raw |-> [name |-> p, st |-> c.st[p], data |-> c.fs[p]], e |-> "nil"]

\* c.unmarshal(raw, v), yaml.Unmarshal or json.Unmarshal as SetType chose: an
\* error unless v is a pointer that is not nil; a text that is no document is an
\* error and stores nothing; no bytes at all are an empty document for yaml and
\* an error for json; a document with a value of the wrong type for its field
\* stores the other fields and is an error
unmarshal(h, typ, raw, v) ==
    IF v.k # "ptr" \/ v.a = 0 THEN [h |-> h, e |-> "unmarshal"]
    ELSE IF raw.st = "syntax" THEN [h |-> h, e |-> UnmarshalError[raw.name]]
    ELSE IF raw.st = "empty"
    THEN [h |-> h, e |-> IF typ = "json" THEN UnmarshalError[raw.name] ELSE "nil"]
    ELSE [h |-> unmarshalKeys(h, LV(v.a, <<>>), raw.data, DOMAIN raw.data),
          e |-> IF raw.st = "type" THEN UnmarshalError[raw.name] ELSE "nil"]

\* readConfigFiles: a later file was unmarshalled into cp, and u is the outcome;
\* merge follows unless this is the first error
readMerge(el, found, e, ord, cp, u) ==
    IF u.e # "nil" /\ e = "nil" THEN [h |-> u.h, found |-> found, e |-> u.e]
    ELSE Bind(merge(u.h, el, RV(cp), ord), LAMBDA r :
            [h |-> r.h, found |-> found,
             e |-> IF r.e = "panic" THEN "panic"
                   ELSE IF r.e # "nil" /\ e = "nil" THEN r.e ELSE e])

\* readConfigFiles: the first file was unmarshalled into c.config, and u is the
\* outcome
readFirst(found, e, u) ==
    [h |-> u.h, found |-> found, e |-> IF u.e # "nil" THEN u.e ELSE e]

\* one turn of the loop of readConfigFiles, for the file p
readOne(h, cfg, el, c, p, found, e, ord) ==
    Bind(ReadFile(c, p), LAMBDA rd :
        IF rd.e # "nil" /\ e = "nil" THEN [h |-> h, found |-> found, e |-> rd.e]
        ELSE IF found + 1 = 1
        THEN Bind(unmarshal(h, c.typ, rd.raw, cfg), LAMBDA u : readFirst(found + 1, e, u))
        ELSE IF ValOf(h, el).k = "invalid" THEN [h |-> h, found |-> found + 1, e |-> "panic"]
        ELSE Bind(PtrV(PtrTo(ValOf(h, el).t), Len(h) + 1), LAMBDA cp :
             Bind(unmarshal(Append(h, Zero(ValOf(h, el).t)), c.typ, rd.raw, cp), LAMBDA u :
                readMerge(el, found + 1, e, ord, cp, u))))

RECURSIVE readFrom(_, _, _, _, _, _, _, _, _)
\* the loop of readConfigFiles over the existing files paths, after found files
readFrom(h, cfg, el, c, paths, found, start, e, ord) ==
    IF paths = <<>> THEN [h |-> h, e |-> IF found = start THEN "noconfigfile" ELSE e]
    ELSE Bind(readOne(h, cfg, el, c, Head(paths), found, e, ord), LAMBDA s :
            IF s.e = "panic" THEN Panic(s.h)
            ELSE readFrom(s.h, cfg, el, c, Tail(paths), s.found, start, s.e, ord))

\* readConfigFiles(found) without the test found == start at its end
readConfigFilesNoCheck(h, cfg, el, c, found, ord) ==
    readFrom(h, cfg, el, c, existingFiles(c), found, found - 1, "nil", ord)

\* readConfigFiles(found)
readConfigFiles(h, cfg, el, c, found, ord) ==
    readFrom(h, cfg, el, c, existingFiles(c), found, found, "nil", ord)

(***************************************************************************)
(* The config files specification: the program has added the file path x,  *)
(* the paths d1 and d2 and the filenames f and g; up to MaxFiles of the    *)
(* five candidates exist.  SetConfig on the zero R, then ReadConfig.       *)
(***************************************************************************)
MaxFiles == 3

\* the payloads of the files
Payloads ==
    {("A" :> IntV(1)),
     ("A" :> IntV(2)) @@ ("S" :> StrV(<<"s">>)),
     ("A" :> IntV(0)) @@ ("V" :> IntV(1)) @@ ("M" :> ("one" :> IntV(2))),
     ("S" :> StrV(<<"t">>)) @@ ("M" :> (("one" :> IntV(0)) @@ ("two" :> IntV(1)))),
     ("V" :> IntV(2)) @@ ("M" :> ("two" :> IntV(2)))}

\* the candidate files, in the order in which the claimed precedence ranks them
Candidates == <<<<"x">>, <<"d1", "f">>, <<"d1", "g">>, <<"d2", "f">>, <<"d2", "g">>>>

InitRead ==
    /\ ConfStart("R")
    /\ env = <<>>
    /\ FlagIdle
    /\ WatchIdle
    /\ \E there \in SUBSET (1..Len(Candidates)) :
        /\ Cardinality(there) <= MaxFiles
        /\ \E fs \in [{Candidates[i] : i \in there} -> Payloads] :
            files = [filepaths |-> <<<<"x">>>>, paths |-> <<"d1", "d2">>,
                     filenames |-> <<"f", "g">>, fs |-> fs,
                     st |-> [p \in DOMAIN fs |-> "ok"], typ |-> "yaml"]

\* ReadConfig(), called once after SetConfig and the assignments of the program
ReadConfig ==
    /\ pc \in {"SetConfig", "Assign"}
    /\ \E ord \in KeyOrders :
        \E r \in {readConfigFiles(heap, config, elem, files, 0, ord)} :
            /\ heap' = r.h
            /\ err' = r.e
    /\ heap0' = heap
    /\ pc' = "ReadConfig"
    /\ UNCHANGED <<heap1, err2, confVars, mergeVars, copyVars, flagVars, files, watch>>

\* ReadConfigNoOverwrite() passing readConfigFiles 0 as ReadConfig does, so that
\* the first file is unmarshalled in place
ReadConfigNoOverwriteInPlace ==
    /\ pc \in {"SetConfig", "Assign"}
    /\ \E ord \in KeyOrders :
        \E r \in {readConfigFiles(heap, config, elem, files, 0, ord)} :
            /\ heap' = r.h
            /\ err' = r.e
    /\ heap0' = heap
    /\ pc' = "ReadConfigNoOverwrite"
    /\ UNCHANGED <<heap1, err2, confVars, mergeVars, copyVars, flagVars, files, watch>>

\* ReadConfigNoOverwrite(), called once after SetConfig and the assignments of
\* the program
ReadConfigNoOverwrite ==
    /\ pc \in {"SetConfig", "Assign"}
    /\ \E ord \in KeyOrders :
        \E r \in {readConfigFiles(heap, config, elem, files, 1, ord)} :
            /\ heap' = r.h
            /\ err' = r.e
    /\ heap0' = heap
    /\ pc' = "ReadConfigNoOverwrite"
    /\ UNCHANGED <<heap1, err2, confVars, mergeVars, copyVars, flagVars, files, watch>>

NextRead ==
    \/ SetConfig
    \/ ReadConfig

SpecRead == InitRead /\ [][NextRead]_vars

(***************************************************************************)
(* The failing files specification: the program has added the file path x, *)
(* the path d1 and the filenames f and g.  Each candidate is absent, a      *)
(* directory, a file that cannot be read, a text that is no document, a     *)
(* document, or a document with one value of the wrong type.  SetConfig,    *)
(* the assignments of the program, then ReadConfig or                       *)
(* ReadConfigNoOverwrite.                                                   *)
(***************************************************************************)
FilePayloads ==
    {("A" :> IntV(1)),
     ("A" :> IntV(0)) @@ ("S" :> StrV(<<"s">>)) @@ ("V" :> IntV(1)),
     ("S" :> StrV(<<"t">>)) @@ ("M" :> ("one" :> IntV(2)))}

Entries ==
    {[st |-> s, data |-> <<>>] : s \in {"dir", "denied", "syntax"}} \cup
    {[st |-> s, data |-> d] : s \in {"ok", "type"}, d \in FilePayloads}

InitFiles ==
    /\ ConfStart("R")
    /\ env = <<>>
    /\ FlagIdle
    /\ WatchIdle
    /\ \E there \in SUBSET {<<"x">>, <<"d1", "f">>, <<"d1", "g">>} :
        /\ Cardinality(there) <= MaxFiles
        /\ \E en \in [there -> Entries], typ \in {"yaml", "json"} :
            files = [filepaths |-> <<<<"x">>>>, paths |-> <<"d1">>,
                     filenames |-> <<"f", "g">>, fs |-> [p \in there |-> en[p].data],
                     st |-> [p \in there |-> en[p].st], typ |-> typ]

NextFiles ==
    \/ SetConfig
    \/ (pc \in {"SetConfig", "Assign"} /\ Assign)
    \/ ReadConfig
    \/ ReadConfigNoOverwrite

SpecFiles == InitFiles /\ [][NextFiles]_vars

(***************************************************************************)
(* Watch and ReloadOn (watch.go).  watch.pc is where the goroutine of       *)
(* updated is: "select" at the select statement, "handle" when it calls the *)
(* function of Watch with an event, "locked", "copied" and "unmarshalled"   *)
(* inside that function, "returned" after its return and "panicked" when    *)
(* the function panicked, which ends the program.  watch.rpc is where the   *)
(* goroutine of ReloadOn is, watch.opc where a reader of another Config is. *)
(***************************************************************************)
RECURSIVE joinFiles(_, _, _)
\* updated: filepath.Join(path, file) for the files from i on
joinFiles(c, d, i) ==
    IF i > Len(c.filenames) THEN <<>>
    ELSE <<Join(d, c.filenames[i])>> \o joinFiles(c, d, i + 1)

RECURSIVE joinPaths(_, _)
\* updated: the loop over c.paths, from path i on
joinPaths(c, i) ==
    IF i > Len(c.paths) THEN <<>> ELSE joinFiles(c, c.paths[i], 1) \o joinPaths(c, i + 1)

RECURSIVE addFiles(_, _, _)
\* updated: watcher.Add(f) for each file of fs; the error of Add for a file that
\* is not there is returned at once, and so is an error when n == 0 at the end
addFiles(c, fs, added) ==
    IF fs = <<>> THEN [added |-> added, e |-> IF added = {} THEN "notwatching" ELSE "nil"]
    ELSE IF Head(fs) \notin DOMAIN c.fs THEN [added |-> added, e |-> "add"]
    ELSE addFiles(c, Tail(fs), added \cup {Head(fs)})

\* updated(f): the files the watcher was given and the error returned
updated(c) == addFiles(c, joinPaths(c, 1), {})

\* the events and the reads that the model follows
MaxEvents == 2

\* c.Watch(), called by the program once
Watch ==
    /\ Running
    /\ pc \in {"SetConfig", "Assign"}
    /\ watch.pc = "off"
    /\ \E r \in {updated(files)} :
        /\ watch' = [watch EXCEPT !.pc = "select", !.added = r.added]
        /\ err' = r.e
    /\ pc' = "Watch"
    /\ heap0' = heap
    /\ UNCHANGED <<heap, heap1, err2, confVars, mergeVars, copyVars, flagVars, files>>

\* c.ReloadOn(sig...), called by the program after Watch
ReloadOn ==
    /\ Running
    /\ pc = "Watch"
    /\ watch.rpc = "off"
    /\ watch' = [watch EXCEPT !.rpc = "ranging"]
    /\ pc' = "ReloadOn"
    /\ UNCHANGED <<heap, heap0, heap1, err, err2, confVars, mergeVars, copyVars, flagVars, files>>

\* select, case event, ok := <-watcher.Events: return when the channel is closed,
\* f(event) for a Write or a Create, continue for another event
ReceiveEvent ==
    /\ Running
    /\ watch.pc = "select"
    /\ \/ /\ watch.events = "closed"
          /\ watch' = [watch EXCEPT !.pc = "returned"]
       \/ /\ watch.events = "open"
          /\ watch.n < MaxEvents
          /\ \E name \in watch.added, op \in {"Write", "Create", "Remove"} :
                watch' = [watch EXCEPT !.n = @ + 1,
                                       !.event = IF op = "Remove" THEN @ ELSE name,
                                       !.res = IF op = "Remove" THEN @ ELSE "none",
                                       !.pc = IF op = "Remove" THEN "select" ELSE "handle"]
    /\ UNCHANGED <<heap, heap0, heap1, pc, err, err2, confVars, mergeVars, copyVars, flagVars,
                   files>>

\* select, case err, ok := <-watcher.Errors: continue when the channel is closed,
\* log the error otherwise
ReceiveError ==
    /\ Running
    /\ watch.pc = "select"
    /\ UNCHANGED vars

\* the watcher closes its Events channel
CloseEvents ==
    /\ Running
    /\ watch.pc # "off"
    /\ watch.events = "open"
    /\ watch' = [watch EXCEPT !.events = "closed"]
    /\ UNCHANGED <<heap, heap0, heap1, pc, err, err2, confVars, mergeVars, copyVars, flagVars,
                   files>>

\* the watcher closes its Errors channel
CloseErrors ==
    /\ Running
    /\ watch.pc # "off"
    /\ watch.errors = "open"
    /\ watch' = [watch EXCEPT !.errors = "closed"]
    /\ UNCHANGED <<heap, heap0, heap1, pc, err, err2, confVars, mergeVars, copyVars, flagVars,
                   files>>

\* the function of Watch returns after log.Println: the deferred Unlock runs
Failed(h, e) ==
    /\ heap' = h
    /\ watch' = [watch EXCEPT !.pc = "select", !.mu = "", !.res = e]
    /\ UNCHANGED err

\* a panic in a goroutine: the deferred Unlock runs and the program ends
Crash(h) ==
    /\ heap' = h
    /\ watch' = [watch EXCEPT !.pc = IF @ \in {"locked", "copied", "unmarshalled"}
                                      THEN "panicked" ELSE @,
                              !.rpc = IF @ = "locked" THEN "panicked" ELSE @,
                              !.mu = ""]
    /\ err' = "panic"

\* Watch with a mutex of its own in the place of c.mu
WatchLockLocal ==
    /\ Running
    /\ watch.pc = "handle"
    /\ watch' = [watch EXCEPT !.pc = "locked"]
    /\ heap1' = heap
    /\ UNCHANGED <<heap, heap0, pc, err, err2, confVars, mergeVars, copyVars, flagVars, files>>

\* Watch: c.mu.Lock()
WatchLock ==
    /\ Running
    /\ watch.pc = "handle"
    /\ watch.mu = ""
    /\ watch' = [watch EXCEPT !.pc = "locked", !.mu = "watch"]
    /\ heap1' = heap
    /\ UNCHANGED <<heap, heap0, pc, err, err2, confVars, mergeVars, copyVars, flagVars, files>>

\* Watch: raw, err := ioutil.ReadFile(e.Name); tmp := copyVal(c.elem)
WatchRead ==
    /\ Running
    /\ watch.pc = "locked"
    /\ \E rd \in {ReadFile(files, watch.event)} :
        IF rd.e # "nil" THEN Failed(heap, rd.e)
        ELSE \E ord \in KeyOrders :
                \E r \in {copyVal(heap, elem, ord)} :
                    IF r.e = "panic" THEN Crash(r.h)
                    ELSE /\ heap' = r.h
                         /\ watch' = [watch EXCEPT !.pc = "copied", !.tmp = r.rv]
                         /\ UNCHANGED err
    /\ UNCHANGED <<heap0, heap1, pc, err2, confVars, mergeVars, copyVars, flagVars, files>>

\* Watch: err = c.unmarshal(raw, c.config)
WatchUnmarshal ==
    /\ Running
    /\ watch.pc = "copied"
    /\ \E u \in {unmarshal(heap, files.typ, ReadFile(files, watch.event).raw, config)} :
        IF u.e # "nil" THEN Failed(u.h, u.e)
        ELSE /\ heap' = u.h
             /\ watch' = [watch EXCEPT !.pc = "unmarshalled"]
             /\ UNCHANGED err
    /\ UNCHANGED <<heap0, heap1, pc, err2, confVars, mergeVars, copyVars, flagVars, files>>

\* Watch without its merge of the snapshot
WatchNoMerge ==
    /\ Running
    /\ watch.pc = "unmarshalled"
    /\ heap' = heap
    /\ watch' = [watch EXCEPT !.pc = "select", !.mu = "", !.res = "ok"]
    /\ UNCHANGED <<heap0, heap1, pc, err, err2, confVars, mergeVars, copyVars, flagVars, files>>

\* Watch: err = merge(c.elem, tmp), and the return of the function
WatchMerge ==
    /\ Running
    /\ watch.pc = "unmarshalled"
    /\ \E ord \in KeyOrders :
        \E r \in {merge(heap, elem, watch.tmp, ord)} :
            IF r.e = "panic" THEN Crash(r.h)
            ELSE IF r.e # "nil" THEN Failed(r.h, r.e)
            ELSE /\ heap' = r.h
                 /\ watch' = [watch EXCEPT !.pc = "select", !.mu = "", !.res = "ok"]
                 /\ UNCHANGED err
    /\ UNCHANGED <<heap0, heap1, pc, err2, confVars, mergeVars, copyVars, flagVars, files>>

\* ReloadOn: a signal arrives and c.ReadConfig() takes c.mu
ReloadLock ==
    /\ Running
    /\ watch.rpc = "ranging"
    /\ watch.mu = ""
    /\ watch.n < MaxEvents
    /\ watch' = [watch EXCEPT !.rpc = "locked", !.mu = "reload", !.n = @ + 1, !.res = "none"]
    /\ UNCHANGED <<heap, heap0, heap1, pc, err, err2, confVars, mergeVars, copyVars, flagVars,
                   files>>

\* ReloadOn: the rest of c.ReadConfig(), whose error is dropped
ReloadRead ==
    /\ Running
    /\ watch.rpc = "locked"
    /\ \E ord \in KeyOrders :
        \E r \in {readConfigFiles(heap, config, elem, files, 0, ord)} :
            IF r.e = "panic" THEN Crash(r.h)
            ELSE /\ heap' = r.h
                 /\ watch' = [watch EXCEPT !.rpc = "ranging", !.mu = ""]
                 /\ UNCHANGED err
    /\ UNCHANGED <<heap0, heap1, pc, err2, confVars, mergeVars, copyVars, flagVars, files>>

\* a goroutine calls ReadConfig on another Config, which has no file: Lock
OtherLock ==
    /\ Running
    /\ watch.pc # "off"
    /\ watch.opc = "off"
    /\ watch.other = ""
    /\ watch' = [watch EXCEPT !.opc = "locked", !.other = "read"]
    /\ UNCHANGED <<heap, heap0, heap1, pc, err, err2, confVars, mergeVars, copyVars, flagVars,
                   files>>

\* ReadConfig on the other Config returns: the deferred Unlock
OtherUnlock ==
    /\ Running
    /\ watch.opc = "locked"
    /\ watch' = [watch EXCEPT !.opc = "off", !.other = ""]
    /\ UNCHANGED <<heap, heap0, heap1, pc, err, err2, confVars, mergeVars, copyVars, flagVars,
                   files>>

(***************************************************************************)
(* The watch specification: the program has added the path d1 and the      *)
(* filenames f and g.  SetConfig, the assignments of the program, Watch and *)
(* ReloadOn; then events, signals and readers in any order.                 *)
(***************************************************************************)
WatchPayloads ==
    {("A" :> IntV(1)),
     ("A" :> IntV(0)) @@ ("S" :> StrV(<<"s">>)) @@ ("V" :> IntV(1)),
     ("S" :> StrV(<<"t">>)) @@ ("M" :> ("one" :> IntV(2))),
     ("M" :> (("one" :> IntV(0)) @@ ("two" :> IntV(1))))}

WatchEntries ==
    {[st |-> s, data |-> <<>>] : s \in {"denied", "syntax"}} \cup
    {[st |-> "ok", data |-> d] : d \in WatchPayloads} \cup
    {[st |-> "type", data |-> ("A" :> IntV(1))]}

InitWatch ==
    /\ ConfStart("R")
    /\ env = <<>>
    /\ FlagIdle
    /\ WatchIdle
    /\ \E there \in SUBSET {<<"d1", "f">>, <<"d1", "g">>} :
        \E en \in [there -> WatchEntries] :
            files = [filepaths |-> <<>>, paths |-> <<"d1">>, filenames |-> <<"f", "g">>,
                     fs |-> [p \in there |-> en[p].data],
                     st |-> [p \in there |-> en[p].st], typ |-> "yaml"]

NextWatch ==
    \/ SetConfig
    \/ (pc \in {"SetConfig", "Assign"} /\ Assign)
    \/ Watch
    \/ ReceiveEvent
    \/ ReceiveError
    \/ WatchLock
    \/ WatchRead
    \/ WatchUnmarshal
    \/ WatchMerge
    \/ Get

SpecWatch == InitWatch /\ [][NextWatch]_vars

(***************************************************************************)
(* The locks specification: the goroutine of Watch, the goroutine of        *)
(* ReloadOn and a goroutine that reads another Config.                      *)
(***************************************************************************)
NextLocks ==
    \/ SetConfig
    \/ (pc \in {"SetConfig", "Assign"} /\ Assign)
    \/ Watch
    \/ ReloadOn
    \/ ReceiveEvent
    \/ ReceiveError
    \/ WatchLock
    \/ WatchRead
    \/ WatchUnmarshal
    \/ WatchMerge
    \/ ReloadLock
    \/ ReloadRead
    \/ OtherLock
    \/ OtherUnlock

SpecLocks == InitWatch /\ [][NextLocks]_vars

(***************************************************************************)
(* The loop specification: the goroutine of Watch and a watcher that may    *)
(* close its channels.                                                      *)
(***************************************************************************)
NextLoop ==
    \/ SetConfig
    \/ (pc \in {"SetConfig", "Assign"} /\ Assign)
    \/ Watch
    \/ ReceiveEvent
    \/ ReceiveError
    \/ CloseEvents
    \/ CloseErrors
    \/ WatchLock
    \/ WatchRead
    \/ WatchUnmarshal
    \/ WatchMerge

SpecLoop == InitWatch /\ [][NextLoop]_vars

(***************************************************************************)
(* The getters specification: SetConfig on a struct of type G, then every  *)
(* getter in any order.                                                    *)
(***************************************************************************)
InitGetters ==
    /\ ConfStart("G")
    /\ FlagIdle
    /\ FilesIdle
    /\ WatchIdle
    /\ env = <<>>

NextGetters ==
    \/ SetConfig
    \/ Get
    \/ GetErr
    \/ GetString
    \/ GetStringErr
    \/ GetInt
    \/ GetIntErr
    \/ GetBool
    \/ GetBoolErr
    \/ GetIntSlice
    \/ GetStringMap
    \/ HasKey
    \/ IsEmpty

SpecGetters == InitGetters /\ [][NextGetters]_vars

(***************************************************************************)
(* The defaults walk specification: SetConfig on a struct of type D, whose  *)
(* fields W and In.X take a text from the environment, then InitDefaults.  *)
(***************************************************************************)
InitWalk ==
    /\ ConfStart("D")
    /\ FlagIdle
    /\ FilesIdle
    /\ WatchIdle
    /\ \E ew \in EnvW, ex \in EnvX : env = ew @@ ex

NextWalk ==
    \/ SetConfig
    \/ InitDefaults

SpecWalk == InitWalk /\ [][NextWalk]_vars

(***************************************************************************)
(* The complex numbers specification: SetConfig on a struct of type K,     *)
(* then InitDefaults and the getters in any order.                         *)
(***************************************************************************)
InitComplex ==
    /\ ConfStart("K")
    /\ FlagIdle
    /\ FilesIdle
    /\ WatchIdle
    /\ env \in EnvW

NextComplex ==
    \/ SetConfig
    \/ InitDefaults
    \/ Get
    \/ GetErr
    \/ GetStringErr
    \/ GetIntErr

SpecComplex == InitComplex /\ [][NextComplex]_vars

(***************************************************************************)
(* Claims about the defaults and the accessors.                            *)
(***************************************************************************)
Accessors == {"Get", "GetStringErr", "GetIntErr", "HasKey", "IsEmpty"}


RECURSIVE ScalarPaths(_)
\* the paths of field indices to the fields of struct type t, at any depth, that
\* are no structs
ScalarPaths(t) ==
    UNION {IF KindOf(FieldsOf(t)[i].t) = "struct"
           THEN {<<i>> \o p : p \in ScalarPaths(FieldsOf(t)[i].t)}
           ELSE {<<i>>} : i \in 1..Len(FieldsOf(t))}

RECURSIVE FieldAt(_, _)
\* the descriptor of the field of t at path p
FieldAt(t, p) ==
    IF Len(p) = 1 THEN FieldsOf(t)[p[1]] ELSE FieldAt(FieldsOf(t)[p[1]].t, Tail(p))

\* what each text of a tag or of the environment denotes
Literal ==
    (<<"1">> :> IntV(1)) @@ (<<"2">> :> IntV(2)) @@ (<<"3">> :> IntV(3)) @@
    (<<"8", "9">> :> IntV(89)) @@ (<<"6", "9">> :> IntV(69)) @@ (<<"1", "2">> :> Int8V(12)) @@
    (<<"7">> :> Int8V(7)) @@ (<<"t", "r", "u", "e">> :> BoolV(TRUE)) @@
    (<<"w">> :> StrV(<<"w">>)) @@ (<<"v">> :> StrV(<<"v">>))

\* the field each key names
KeyPath ==
    (<<"a">> :> <<1>>) @@ (<<"b">> :> <<2>>) @@ (<<"E">> :> <<3>>) @@ (<<"N">> :> <<5>>) @@
    (<<"i", "n", "n", "e", "r", ".", "O", "t", "h", "e", "r">> :> <<6, 2>>)

\* C8: after InitDefaults returns without error, every exported field that is no
\* struct, at any depth, that was non-zero before the call is unchanged, and every
\* such field that was zero and has a default tag and no env tag holds the value
\* the default literal denotes.
DefaultsMaterialized ==
    (pc = "InitDefaults" /\ err = "nil") =>
        \A p \in ScalarPaths("C") :
            LET fld == FieldAt("C", p)
                old == GetPath(Conf(heap0), p)
                new == GetPath(Conf(heap), p)
            IN
            fld.name[1] \in Upper =>
                /\ ~IsZero(old) => new = old
                /\ (IsZero(old) /\ fld.tag["default"] # <<>> /\ fld.tag["env"] = <<>>)
                        => new = Literal[fld.tag["default"]]

\* C8 witness: InitDefaults returned nil on a struct whose B was 5 and whose
\* Inner.Other was 0; B is 5 and Inner.Other is 69.
DefaultsMaterializedWitness ==
    /\ pc = "InitDefaults" /\ err = "nil"
    /\ GetPath(Conf(heap0), <<2>>) = IntV(5)
    /\ GetPath(Conf(heap0), <<6, 2>>) = IntV(0)
    /\ GetPath(Conf(heap), <<2>>) = IntV(5)
    /\ GetPath(Conf(heap), <<6, 2>>) = IntV(69)

\* the text that the claimed priority takes the default of a field from: the
\* variable of the env tag when it is set and non-empty, else the default tag
Source(fld) ==
    IF fld.tag["env"] # <<>> /\ Getenv(env, fld.tag["env"]) # <<>>
    THEN Getenv(env, fld.tag["env"])
    ELSE fld.tag["default"]

\* the value the claimed priority gives a zero field of type t
Sourced(fld) == IF Source(fld) = <<>> THEN Zero(fld.t) ELSE Literal[Source(fld)]

\* C9: a zero field takes its default from the variable of its env tag when that is
\* set and non-empty, otherwise from its default tag, and stays zero without an
\* error when neither gives a text; in InitDefaults and in Get.
DefaultSourcePriority ==
    /\ (pc = "InitDefaults" /\ err = "nil") =>
            \A p \in ScalarPaths("C") :
                (IsZero(GetPath(Conf(heap0), p)) /\ Source(FieldAt("C", p)) \in DOMAIN Literal \cup {<<>>})
                    => GetPath(Conf(heap), p) = Sourced(FieldAt("C", p))
    /\ (pc = "Get" /\ err = "nil" /\ lastKey \in DOMAIN KeyPath) =>
            LET fld == FieldAt("C", KeyPath[lastKey]) IN
            (IsZero(GetPath(Conf(heap0), KeyPath[lastKey])) /\ Source(fld) \in DOMAIN Literal \cup {<<>>})
                => ret = Sourced(fld)

GetPrefersFieldValue ==
    (pc = "Get" /\ err = "nil" /\ schema = "C" /\ lastKey \in DOMAIN KeyPath) =>
        LET fld == FieldAt("C", KeyPath[lastKey])
            own == GetPath(Conf(heap), KeyPath[lastKey])
            text == IF fld.tag["env"] # <<>> THEN Getenv(env, fld.tag["env"])
                    ELSE fld.tag["default"]
        IN
        /\ ~IsZero(own) => ret = own
        /\ (IsZero(own) /\ text \in DOMAIN Literal) => ret = Literal[text]

\* C11 witness: TEST_A is "v", A was empty, the program assigned A = "s" and
\* Get("a") returned "s".
GetPrefersFieldValueWitness ==
    /\ pc = "Get" /\ err = "nil"
    /\ lastKey = <<"a">>
    /\ Getenv(env, TEST_A) = <<"v">>
    /\ heap1 # <<>>
    /\ GetPath(heap1[1], <<1>>) = StrV(<<>>)
    /\ GetPath(Conf(heap), <<1>>) = StrV(<<"s">>)
    /\ ret = StrV(<<"s">>)

\* the accessors that go through Config.get
Getters == Accessors \ {"HasKey"}

\* the names a key segment may use for a field: the name in its config, yaml or
\* json tag, and the field name
Labels(fld) ==
    ({Split(fld.tag[tg], ",")[1] : tg \in {"config", "yaml", "json"}} \cup {fld.name}) \ {<<>>}

\* the first field of struct type t that seg names, 0 when it names none
Named(t, seg) ==
    LET hits == {i \in 1..Len(FieldsOf(t)) : seg \in Labels(FieldsOf(t)[i])} IN
    IF hits = {} THEN 0 ELSE CHOOSE i \in hits : \A j \in hits : i <= j

RECURSIVE Misses(_, _)
\* some segment of segs names no field of the struct reached so far, from t
Misses(t, segs) ==
    LET i == Named(t, segs[1]) IN
    IF i = 0 THEN TRUE
    ELSE IF Len(segs) = 1 THEN FALSE
    ELSE KindOf(FieldsOf(t)[i].t) = "struct" /\ Misses(FieldsOf(t)[i].t, Tail(segs))

RECURSIVE GoesOn(_, _)
\* segs has more segments after a segment that names a field that is no struct
GoesOn(t, segs) ==
    LET i == Named(t, segs[1]) IN
    /\ i # 0
    /\ Len(segs) > 1
    /\ \/ KindOf(FieldsOf(t)[i].t) # "struct"
       \/ GoesOn(FieldsOf(t)[i].t, Tail(segs))

RECURSIVE KindAt(_, _)
\* the kind of the field that segs names from struct type t, "" when it names none
KindAt(t, segs) ==
    LET i == Named(t, segs[1]) IN
    IF i = 0 THEN ""
    ELSE IF Len(segs) = 1 THEN KindOf(FieldsOf(t)[i].t)
    ELSE IF KindOf(FieldsOf(t)[i].t) = "struct" THEN KindAt(FieldsOf(t)[i].t, Tail(segs))
    ELSE ""

\* the getters that return an error, and the zero value each getter returns
ErrGetters == {"GetErr", "GetStringErr", "GetIntErr", "GetBoolErr"}
ZeroOf ==
    ("Get" :> Invalid) @@ ("GetErr" :> Invalid) @@
    ("GetString" :> StrV(<<>>)) @@ ("GetStringErr" :> StrV(<<>>)) @@
    ("GetInt" :> IntV(0)) @@ ("GetIntErr" :> IntV(0)) @@
    ("GetBool" :> BoolV(FALSE)) @@ ("GetBoolErr" :> BoolV(FALSE)) @@
    ("GetIntSlice" :> SliceV("[]int", 0)) @@
    ("GetStringMap" :> MapV("map[string]string", 0))

\* a config struct of type G is set and the last accessor was called with a key
\* whose segments satisfy P
Called(P(_, _)) ==
    /\ schema = "G"
    /\ Conf(heap0).k = "struct"
    /\ pc \in DOMAIN ZeroOf \cup {"HasKey"}
    /\ P("G", Split(lastKey, "."))

PathBeyondLeafIsNotFound ==
    Called(GoesOn) =>
        /\ err \notin Panics
        /\ pc = "HasKey" => ret = BoolV(FALSE)
        /\ pc \in ErrGetters => err = "notfound"

\* the kind each typed getter is for
KindFor ==
    ("GetString" :> "string") @@ ("GetStringErr" :> "string") @@
    ("GetInt" :> "int") @@ ("GetIntErr" :> "int") @@
    ("GetBool" :> "bool") @@ ("GetBoolErr" :> "bool") @@
    ("GetIntSlice" :> "slice") @@ ("GetStringMap" :> "map")

\* the key names a field
Names(t, segs) == KindAt(t, segs) # ""

\* C14: a typed getter called on a field of another kind returns the zero value
\* of its return type, with ErrWrongType when it returns an error; it does not
\* panic.
WrongKindIsZero ==
    (Called(Names) /\ pc \in DOMAIN KindFor /\ KindAt("G", Split(lastKey, ".")) # KindFor[pc]) =>
        /\ ret = ZeroOf[pc]
        /\ err = IF pc \in ErrGetters THEN "wrongtype" ELSE "nil"

\* C15: a getter panics with errElemNotSet exactly when Config.elem is not set:
\* before SetConfig, and after SetConfig with a nil pointer; after SetConfig with
\* a struct or a pointer to one no getter panics with it.
ElemNotSetUnlessStruct ==
    pc \in Getters =>
        (err = "errElemNotSet" <=> (config = Invalid \/ (config.k = "ptr" /\ config.a = 0)))

\* C15 witness: Get was called before SetConfig and panicked with errElemNotSet.
ElemNotSetUnlessStructWitness ==
    pc = "Get" /\ config = Invalid /\ err = "errElemNotSet"

\* C15 as stated: a getter panics with errElemNotSet exactly when SetConfig has
\* not been called.
ElemNotSetBeforeSetConfig ==
    pc \in Getters => (err = "errElemNotSet" <=> config = Invalid)

(***************************************************************************)
(* Claims about the defaults walk.                                         *)
(***************************************************************************)
\* the text the default of a field is coerced from
DefaultText(fld) ==
    IF fld.tag["env"] # <<>> THEN Getenv(env, fld.tag["env"]) ELSE fld.tag["default"]

\* path p comes before path q in the walk of setDefaults
RECURSIVE Earlier(_, _)
Earlier(p, q) ==
    /\ p # <<>> /\ q # <<>>
    /\ \/ p[1] < q[1]
       \/ p[1] = q[1] /\ Earlier(Tail(p), Tail(q))

\* the fields of D whose coercion fails: zero before the call, with a text that
\* denotes no value of the field's type
Failing ==
    {p \in ScalarPaths("D") :
        /\ IsZero(GetPath(Conf(heap0), p))
        /\ DefaultText(FieldAt("D", p)) \notin DOMAIN Literal \cup {<<>>}}

\* C16: when the coercion of a default fails, InitDefaults returns the error, no
\* field the walk visits after the failing field is written, also when the
\* failing field lies in a nested struct and the later field in the enclosing
\* one, and the fields visited before it hold their defaults.
CoercionErrorAborts ==
    (pc = "InitDefaults" /\ schema = "D" /\ elem.can /\ Failing # {}) =>
        /\ err = "parse"
        /\ \A f \in Failing : \A p \in ScalarPaths("D") :
                /\ (Earlier(f, p) \/ f = p) => GetPath(Conf(heap), p) = GetPath(Conf(heap0), p)
                /\ (\A g \in Failing : Earlier(p, g))
                    => GetPath(Conf(heap), p) =
                            IF IsZero(GetPath(Conf(heap0), p)) /\ DefaultText(FieldAt("D", p)) # <<>>
                            THEN Literal[DefaultText(FieldAt("D", p))]
                            ELSE GetPath(Conf(heap0), p)

(***************************************************************************)
(* Claims about flag binding.                                              *)
(***************************************************************************)
\* the name of the flag of Name.Val with the delimiter d
InnerVal(d) == <<"i", "n", "n", "e", "r", d, "V", "a", "l">>

\* the field of F each flag name stands for
FlagPath(name) ==
    CASE name = <<"A">> -> <<1>>
      [] name = <<"o", "n">> -> <<3>>
      [] OTHER -> <<4, 1>>

\* the flag set the last call of a bind function was given
BoundSet == IF pc = "BindToFlagSet" THEN flagset ELSE pflagset

FlagsExcluded ==
    (pc \in {"BindToFlagSet", "BindToPFlagSet"} /\ err = "nil") =>
        DOMAIN BoundSet =
            {name \in {<<"A">>, <<"o", "n">>, InnerVal(delim)} :
                /\ name \notin overrides
                /\ name = InnerVal(delim) => <<"i", "n", "n", "e", "r">> \notin overrides}

\* C18 witness: with DisableFlag("inner"), BindToFlagSet registered A and on only.
FlagsExcludedWitness ==
    /\ pc = "BindToFlagSet" /\ err = "nil"
    /\ overrides = {<<"i", "n", "n", "e", "r">>}
    /\ DOMAIN flagset = {<<"A">>, <<"o", "n">>}

\* the value each text denotes for a field of each kind
Denoted ==
    ("int8" :> ((<<"0">> :> Int8V(0)) @@ (<<"1">> :> Int8V(1)))) @@
    ("int" :> ((<<"0">> :> IntV(0)) @@ (<<"1">> :> IntV(1)) @@ (<<"1", "2", "8">> :> IntV(128)))) @@
    ("bool" :> ((<<"0">> :> BoolV(FALSE)) @@ (<<"1">> :> BoolV(TRUE))))

Setting(k) ==
    {i \in 1..Len(Candidates) :
        /\ Candidates[i] \in DOMAIN files.fs
        /\ k \in DOMAIN files.fs[Candidates[i]]
        /\ ~IsZero(files.fs[Candidates[i]][k])}

\* the value the claimed precedence gives the field of key k
Earliest(k) ==
    IF Setting(k) = {} THEN Zero(FieldAt("R", PayloadPath[k]).t)
    ELSE files.fs[Candidates[CHOOSE i \in Setting(k) : \A j \in Setting(k) : i <= j]][k]

\* the candidates that exist and hold the key mk of M, and those that give it a
\* value that is not zero
Holding(mk) ==
    {i \in 1..Len(Candidates) :
        /\ Candidates[i] \in DOMAIN files.fs
        /\ "M" \in DOMAIN files.fs[Candidates[i]]
        /\ mk \in DOMAIN files.fs[Candidates[i]]["M"]}
SettingEntry(mk) == {i \in Holding(mk) : ~IsZero(files.fs[Candidates[i]]["M"][mk])}

\* the table of the map M of the config struct
Table == IF GetPath(Conf(heap), <<4>>).a = 0 THEN <<>> ELSE heap[GetPath(Conf(heap), <<4>>).a].m

\* C20: when files exist and the struct was zero, ReadConfig returns nil and each
\* of A, S, In.V and each entry of M holds the value of the first file, explicit
\* file paths before the paths crossed with the filenames, that gives it a value
\* that is not zero; a field no file gives such a value stays zero.
EarliestFileWins ==
    (pc = "ReadConfig" /\ config.k = "ptr" /\ config.a # 0 /\ DOMAIN files.fs # {}) =>
        /\ err = "nil"
        /\ \A k \in DOMAIN PayloadPath : GetPath(Conf(heap), PayloadPath[k]) = Earliest(k)
        /\ DOMAIN Table = {mk \in Keys : Holding(mk) # {}}
        /\ \A mk \in DOMAIN Table :
                Table[mk] =
                    IF SettingEntry(mk) = {} THEN IntV(0)
                    ELSE files.fs[Candidates[CHOOSE i \in SettingEntry(mk) :
                                                \A j \in SettingEntry(mk) : i <= j]]["M"][mk]

(***************************************************************************)
(* Claims about files that fail and about ReadConfigNoOverwrite.           *)
(***************************************************************************)
\* the fields of R, at any depth, that are a number, a bool or a string
Plain == {p \in ScalarPaths("R") : KindOf(FieldAt("R", p).t) \in {"int", "int8", "bool", "string"}}

\* the files that readConfigFiles goes through, in its order
Existing == existingFiles(files)

\* C21: ReadConfigNoOverwrite never changes a field of the config struct that is
\* a number, a bool or a string and was not zero before the call, whatever the
\* files hold, however many there are and however the call ends.
NoOverwriteKeeps ==
    (pc = "ReadConfigNoOverwrite" /\ ValOf(heap0, elem).k = "struct") =>
        \A p \in Plain :
            ~IsZero(GetPath(Conf(heap0), p)) => GetPath(Conf(heap), p) = GetPath(Conf(heap0), p)

\* the program assigned A = 3, a document that is read gives A another value that
\* is not zero, and the call filled another field and returned nil
NoOverwriteKeepsWitness ==
    /\ pc = "ReadConfigNoOverwrite"
    /\ err = "nil"
    /\ elem.can
    /\ GetPath(Conf(heap0), <<1>>) = IntV(3)
    /\ Conf(heap) # Conf(heap0)
    /\ \E i \in 1..Len(Existing) :
        /\ files.st[Existing[i]] = "ok"
        /\ "A" \in DOMAIN files.fs[Existing[i]]
        /\ files.fs[Existing[i]]["A"] = IntV(1)

Sound == {p \in DOMAIN files.fs : files.st[p] = "ok"}
Broken == {p \in DOMAIN files.fs : files.st[p] \in {"denied", "syntax", "type"}}

\* the file system without the files that fail
SoundOnly ==
    [files EXCEPT !.fs = [p \in Sound |-> files.fs[p]], !.st = [p \in Sound |-> "ok"]]

\* the error of the first file that fails
FirstFailure ==
    LET i == CHOOSE i \in 1..Len(Existing) :
                /\ Existing[i] \in Broken
                /\ \A j \in 1..(i - 1) : Existing[j] \notin Broken
    IN  IF files.st[Existing[i]] = "denied" THEN PathError[Existing[i]]
        ELSE UnmarshalError[Existing[i]]

\* C30: a ReadConfig that returns leaves the config struct as reading the files
\* that do not fail alone leaves it (a file whose read or unmarshal fails gives
\* the struct no value and is not counted as found), and when a file failed and
\* another was read the error returned is that of the first file that failed.
FailedFilesSkipped ==
    (pc = "ReadConfig" /\ config.k = "ptr" /\ config.a # 0 /\ err \notin Panics) =>
        /\ \E ord \in KeyOrders :
            \E r \in {readConfigFiles(heap0, config, elem, SoundOnly, 0, ord)} :
                r.e \notin Panics => View(heap, Conf(heap)) = View(r.h, ValOf(r.h, elem))
        /\ (Broken # {} /\ Sound # {}) => err = FirstFailure

(***************************************************************************)
(* Claims about complex numbers.                                           *)
(***************************************************************************)
\* the complex fields of K and the key of each
ComplexKey == (<<"c">> :> <<2>>) @@ (<<"Z">> :> <<3>>) @@ (<<"U">> :> <<4>>)

\* C28: coercing a text into a complex field does nothing.  InitDefaults on a
\* struct passed by pointer returns nil and leaves every complex field as it
\* was, and Get and GetErr on a complex field that is zero return its zero value
\* and no error; none of them panics.
ComplexIsNoOp ==
    /\ (pc = "InitDefaults" /\ elem.can) =>
            /\ err = "nil"
            /\ \A k \in DOMAIN ComplexKey :
                GetPath(Conf(heap), ComplexKey[k]) = GetPath(Conf(heap0), ComplexKey[k])
    /\ (/\ pc \in {"Get", "GetErr"}
        /\ ValOf(heap0, elem).k = "struct"
        /\ lastKey \in DOMAIN ComplexKey
        /\ IsZero(GetPath(Conf(heap0), ComplexKey[lastKey]))) =>
            /\ err = "nil"
            /\ ret = Zero(FieldAt("K", ComplexKey[lastKey]).t)

(***************************************************************************)
(* Claims about what binding writes.                                       *)
(***************************************************************************)
\* C29: BindToFlagSet and BindToPFlagSet leave every field of the config struct
\* as it was, bool fields included, and setting a flag changes no field but the
\* one the flag is bound to.
BindLeavesStruct ==
    /\ (pc \in {"BindToFlagSet", "BindToPFlagSet"} /\ ValOf(heap0, elem).k = "struct") =>
            Conf(heap) = Conf(heap0)
    /\ (pc \in {"Set", "PSet"} /\ ValOf(heap0, elem).k = "struct") =>
            \A p \in ScalarPaths("F") :
                GetPath(Conf(heap), p) # GetPath(Conf(heap0), p) =>
                    (IF pc = "Set" THEN flagset ELSE pflagset)[lastKey].val.loc.p = p

(***************************************************************************)
(* Claims about Watch and ReloadOn.                                        *)
(***************************************************************************)
\* the payload of the file of the event that Watch handled last
Doc == files.fs[watch.event]

\* the entries of the field M of the config struct in the memory h
MapAt(h) ==
    IF Conf(h).k # "struct" THEN <<>>
    ELSE IF GetPath(Conf(h), <<4>>).a = 0 THEN <<>>
    ELSE h[GetPath(Conf(h), <<4>>).a].m

\* the entries that a payload gives the field M
MapOf(doc) == IF "M" \in DOMAIN doc THEN doc["M"] ELSE <<>>

\* C23: after a reload of Watch that succeeded, every field and every entry of
\* the map that the payload sets to a value that is not zero holds that value,
\* every field and entry the payload does not set is as it was before the
\* reload, and nothing that was not zero before the reload is zero.
ReloadKeeps ==
    watch.res = "ok" =>
        /\ \A k \in DOMAIN PayloadPath :
            /\ (k \in DOMAIN Doc /\ ~IsZero(Doc[k])) =>
                    GetPath(Conf(heap), PayloadPath[k]) = Doc[k]
            /\ k \notin DOMAIN Doc =>
                    GetPath(Conf(heap), PayloadPath[k]) = GetPath(Conf(heap1), PayloadPath[k])
            /\ ~IsZero(GetPath(Conf(heap1), PayloadPath[k])) =>
                    ~IsZero(GetPath(Conf(heap), PayloadPath[k]))
        /\ DOMAIN MapAt(heap) = DOMAIN MapAt(heap1) \cup DOMAIN MapOf(Doc)
        /\ \A key \in DOMAIN MapAt(heap) :
            /\ (key \in DOMAIN MapOf(Doc) /\ ~IsZero(MapOf(Doc)[key])) =>
                    MapAt(heap)[key] = MapOf(Doc)[key]
            /\ key \notin DOMAIN MapOf(Doc) => MapAt(heap)[key] = MapAt(heap1)[key]
            /\ (key \in DOMAIN MapAt(heap1) /\ ~IsZero(MapAt(heap1)[key])) =>
                    ~IsZero(MapAt(heap)[key])

\* the program assigned A = 3 and In.V = 3, the file of the event holds a: 0,
\* s: "s" and v: 1, and after the reload A is 3, S is "s" and In.V is 1
ReloadKeepsWitness ==
    /\ watch.res = "ok"
    /\ GetPath(Conf(heap1), <<1>>) = IntV(3)
    /\ GetPath(Conf(heap1), <<2>>) = StrV(<<>>)
    /\ GetPath(Conf(heap1), <<3, 1>>) = IntV(3)
    /\ Doc = ("A" :> IntV(0)) @@ ("S" :> StrV(<<"s">>)) @@ ("V" :> IntV(1))
    /\ GetPath(Conf(heap), <<1>>) = IntV(3)
    /\ GetPath(Conf(heap), <<2>>) = StrV(<<"s">>)
    /\ GetPath(Conf(heap), <<3, 1>>) = IntV(1)

\* the field of R that each key of a reader names
ReaderPath == (<<"A">> :> <<1>>) @@ (<<"S">> :> <<2>>) @@ (<<"I", "n", ".", "V">> :> <<3, 1>>)

\* C24: a Get that runs while Watch reloads the same Config returns the value
\* the field had before the reload or the value it has after it, never the value
\* that unmarshal stored and that the merge of the snapshot has yet to undo.
ReadersSeeNoTear ==
    (pc = "Get" /\ err = "nil" /\ heap0 = heap /\ watch.pc = "unmarshalled") =>
        \A ord \in KeyOrders :
            \A r \in {merge(heap, elem, watch.tmp, ord)} :
                \/ ret = GetPath(Conf(heap1), ReaderPath[lastKey])
                \/ r.e = "nil" /\ ret = GetPath(ValOf(r.h, elem), ReaderPath[lastKey])

\* the goroutine of Watch is inside the function that reloads
Reloading == watch.pc \in {"locked", "copied", "unmarshalled"}

\* C25: the snapshot, the unmarshal and the merge of a reload run while the
\* goroutine of Watch holds the mutex of the Config, from the first to the last,
\* so a reload and a read that ReloadOn triggers are never both under way; and
\* the mutex of another Config never keeps a reload from starting, nor does a
\* reload keep a read of another Config from starting.
OneCriticalSection ==
    /\ Reloading <=> watch.mu = "watch"
    /\ watch.rpc = "locked" <=> watch.mu = "reload"
    /\ ~(Reloading /\ watch.rpc = "locked")
    /\ (Running /\ watch.pc = "handle" /\ watch.mu = "") => ENABLED WatchLock
    /\ (Running /\ watch.pc # "off" /\ watch.opc = "off") => ENABLED OtherLock

\* a reload is between its unmarshal and its merge, a signal cannot start the
\* read of ReloadOn, and a goroutine holds the mutex of another Config
OneCriticalSectionWitness ==
    /\ watch.pc = "unmarshalled"
    /\ watch.mu = "watch"
    /\ watch.rpc = "ranging"
    /\ watch.n < MaxEvents
    /\ ~ENABLED ReloadLock
    /\ watch.other = "read"

\* C26: after a reload in which ReadFile, unmarshal or merge failed, every field
\* of the config struct and every entry of its map is as it was when the reload
\* began, and the mutex of the Config is free.
FailedReloadRestores ==
    (watch.res \notin {"none", "ok"} \/ watch.pc = "panicked") =>
        /\ Conf(heap) = Conf(heap1)
        /\ MapAt(heap) = MapAt(heap1)
        /\ watch.mu = ""

\* C27: the goroutine of Watch, for a Config whose struct is set, ends only when
\* the Events channel of the watcher is closed: while the channel is open no
\* event, no error of the watcher and no closing of the Errors channel ends it.
EndsOnlyWhenClosed ==
    (watch.pc \in {"returned", "panicked"} /\ Conf(heap).k = "struct") =>
        watch.events = "closed"
====
